---- MODULE Spec2Model ----
(***************************************************************************)
(* Session grouping of Chess.com games (sessions.py, parsing.py).          *)
(*                                                                         *)
(* Instants are whole seconds since 2024-01-01T00:00:00Z.  A local-time    *)
(* date is the number of whole days since 2024-01-01.  The time-zone rules *)
(* of America/New_York are those of the year 2024; the modelled games of   *)
(* other years are played in the winter, under standard time.              *)
(***************************************************************************)
EXTENDS Integers, Sequences, FiniteSets, TLC

VARIABLES
    argv,             \* the command line as typed
    entry,            \* the function the run entered: "main", or a function of fetching.py
    archive,          \* what the Chess.com server holds: (year, month) -> payload
    disk,             \* the files under CACHE_ROOT: path -> content
    call,             \* the last call of fetch_month_games: arguments, replies, result
    opponent_country_cache,  \* module global: opponent -> country code or None
    country_name_cache,      \* module global: country code -> name or None
    country_cache_dirty,     \* module global
    country_files,    \* the country_cache.json files under CACHE_ROOT: user directory -> content
    inv,              \* the invocations of main() in one process: user, --no-cache, position,
                      \* the games fetched, the opponents to look up, the countries printed
    touched,          \* per invocation, the cache files and cache entries it has read and written
    args,             \* the parsed command line: user, days, gap, day_cutoff_hour, games
    games,            \* the raw game records the fetch layer returned
    pc,               \* position of main()
    parsed,           \* the (start, end, res, side, g) tuples
    cur,              \* the session being accumulated
    sessions,         \* the closed sessions
    gi,               \* number of events of parsed the segmentation loop has consumed
    si,               \* number of sessions the bucketing loop has consumed
    sessions_by_day,  \* shifted local date -> list of sessions
    flat,             \* the (res, side) strip of the summary
    summary,          \* the counts and the Elo range of the summary, once computed
    printed_days      \* the days in the order their rule is printed

\* What the game loop, the segmentation and the summary of main() leave alone.
\* The country caches and the invocations that share them.
country_vars ==
    <<opponent_country_cache, country_name_cache, country_cache_dirty, country_files,
      inv, touched>>

others == <<argv, entry, archive, call, country_vars>>

\* The state of a run of main() apart from the disk.
main_vars ==
    <<args, games, pc, parsed, cur, sessions, gi, si, sessions_by_day, flat,
      summary, printed_days>>

vars == <<others, disk, main_vars>>

-----------------------------------------------------------------------------
(* Bounds *)

\* Largest number of raw game records the fetch layer returns in one run of
\* Spec, of SpecTags and of SpecResults.
MaxGames == 3
MaxTagGames == 2
MaxResultGames == 1

\* Largest number of raw game records in one run of SpecRatings.
MaxRatingGames == 2

\* Largest number of games the server holds for one month in SpecHistory.
MaxMonthGames == 1

-----------------------------------------------------------------------------
(* Python values *)

\* Python's None where the other values are strings (the side of an event).
None == "None"

\* Python's None as the value of args.days, which is otherwise "all" or a number
\* >= 1.
None_days == <<0>>

\* An optional number (args.games, the cutoff date): <<>> is None, <<n>> is n.
\* args.days is <<>> for "all" and <<n>> for n days.
Nothing == <<>>
Some(n) == <<n>>

Last(s) == s[Len(s)]

\* s[-n:] for n > 0
Tail_n(s, n) ==
    IF Len(s) <= n THEN s ELSE SubSeq(s, Len(s) - n + 1, Len(s))

RECURSIVE Concat(_)
\* The concatenation of a sequence of sequences.
Concat(ss) ==
    IF ss = <<>> THEN <<>> ELSE Head(ss) \o Concat(Tail(ss))

-----------------------------------------------------------------------------
(* Calendar: datetime.strptime, astimezone, date arithmetic *)

IsLeap(y) == (y % 4 = 0) /\ ((y % 100 # 0) \/ (y % 400 = 0))

DaysInMonth(y, m) ==
    IF m = 2 THEN (IF IsLeap(y) THEN 29 ELSE 28)
    ELSE IF m \in {4, 6, 9, 11} THEN 30 ELSE 31

RECURSIVE DaysBeforeMonth(_, _)
DaysBeforeMonth(y, m) ==
    IF m <= 1 THEN 0 ELSE DaysBeforeMonth(y, m - 1) + DaysInMonth(y, m - 1)

\* Days from 0001-01-01 to the first day of year y (proleptic Gregorian).
DaysBeforeYear(y) ==
    (y - 1) * 365 + ((y - 1) \div 4) - ((y - 1) \div 100) + ((y - 1) \div 400)

\* Days from 2024-01-01 to the date y.m.d.
DayNumber(y, m, d) ==
    DaysBeforeYear(y) + DaysBeforeMonth(y, m) + (d - 1) - DaysBeforeYear(2024)

\* The instant of y.m.d hh:mi:ss UTC.
Instant(y, m, d, hh, mi, ss) ==
    DayNumber(y, m, d) * 86400 + hh * 3600 + mi * 60 + ss

\* The day numbers of the first days of the months of 2020 to 2025.
month_start == [y \in 2020..2025, m \in 1..12 |-> DayNumber(y, m, 1)]

\* date.year and date.month of a date given as a day number.
date_year(d) ==
    CHOOSE y \in 2020..2025 : month_start[y, 1] <= d /\ d < month_start[y, 12] + 31

date_month(d) ==
    LET y == date_year(d)
    IN  CHOOSE m \in 1..12 :
            month_start[y, m] <= d /\ d < month_start[y, m] + DaysInMonth(y, m)

\* timedelta(hours=h), timedelta(minutes=m), timedelta(days=d)
Hours(h) == h * 3600
Minutes(m) == m * 60
Days(d) == d * 86400

\* America/New_York in 2024: daylight time from 2024-03-10T07:00Z until
\* 2024-11-03T06:00Z (UTC-4), standard time otherwise (UTC-5).
dst_begins == Instant(2024, 3, 10, 7, 0, 0)
dst_ends == Instant(2024, 11, 3, 6, 0, 0)

LOCAL_TZ(t) ==
    IF dst_begins <= t /\ t < dst_ends THEN Hours(-4) ELSE Hours(-5)

\* t.astimezone(LOCAL_TZ): the wall-clock reading, in seconds since 2024-01-01 00:00
\* on the local clock.
astimezone(t) == t + LOCAL_TZ(t)

\* (wall - shift).date(): arithmetic on an aware datetime moves the wall clock.
shifted_date(wall, shift) == (wall - shift) \div 86400

-----------------------------------------------------------------------------
(* PGN tags *)

\* A tag value is a run of numbers joined by one separator character:
\* "2024.11.03" is [sep |-> ".", nums |-> <<2024, 11, 3>>].  A tag that is not in
\* the PGN (or whose value is empty) is NoTag.
NoTag == [sep |-> "", nums |-> <<>>]

Tag(sep, nums) == [sep |-> sep, nums |-> nums]

\* PGN_DATE_RE / PGN_START_RE / PGN_END_RE .search(pgn): the tag is there and its
\* value is made of digits and the one separator the pattern allows.
re_search(tag, sep) ==
    /\ Len(tag.nums) >= 1
    /\ Len(tag.nums) > 1 => tag.sep = sep

\* strptime accepts "%Y.%m.%d" / "%H:%M:%S" only for three fields in range.
strptime_date_ok(n) ==
    /\ Len(n) = 3
    /\ n[1] \in 1..9999
    /\ n[2] \in 1..12
    /\ n[3] >= 1 /\ n[3] <= DaysInMonth(n[1], n[2])

strptime_time_ok(n) ==
    /\ Len(n) = 3
    /\ n[1] \in 0..23
    /\ n[2] \in 0..59
    /\ n[3] \in 0..59

strptime(date, time) ==
    Instant(date[1], date[2], date[3], time[1], time[2], time[3])

\* sessions.py parse_pgn_times: (None, None), a ValueError out of strptime, or
\* (start, end) exactly as the tags read.
parse_pgn_times(pgn) ==
    IF ~(/\ re_search(pgn.UTCDate, ".")
         /\ re_search(pgn.UTCTime, ":")
         /\ re_search(pgn.EndTime, ":"))
    THEN [st |-> "none"]
    ELSE IF ~(strptime_date_ok(pgn.UTCDate.nums) /\ strptime_time_ok(pgn.UTCTime.nums))
    THEN [st |-> "ValueError"]
    ELSE IF ~strptime_time_ok(pgn.EndTime.nums)
    THEN [st |-> "ValueError"]
    ELSE [st |-> "ok",
          start |-> strptime(pgn.UTCDate.nums, pgn.UTCTime.nums),
          end |-> strptime(pgn.UTCDate.nums, pgn.EndTime.nums)]

\* parsing.py parse_pgn_times: as above, and an end before the start is moved to
\* the next day.
parsing_parse_pgn_times(pgn) ==
    LET r == parse_pgn_times(pgn)
    IN  IF r.st = "ok" /\ r.end < r.start
        THEN [r EXCEPT !.end = r.end + Days(1)]
        ELSE r

-----------------------------------------------------------------------------
(* Strings that the code lower-cases: sequences of one-character strings *)

UpperLetters ==
    <<"A", "B", "C", "D", "E", "F", "G", "H", "I", "J", "K", "L", "M",
      "N", "O", "P", "Q", "R", "S", "T", "U", "V", "W", "X", "Y", "Z">>

LowerLetters ==
    <<"a", "b", "c", "d", "e", "f", "g", "h", "i", "j", "k", "l", "m",
      "n", "o", "p", "q", "r", "s", "t", "u", "v", "w", "x", "y", "z">>

lower_char(c) ==
    IF \E i \in DOMAIN UpperLetters : UpperLetters[i] = c
    THEN LowerLetters[CHOOSE i \in DOMAIN UpperLetters : UpperLetters[i] = c]
    ELSE c

\* str.lower()
lower(s) == [i \in DOMAIN s |-> lower_char(s[i])]

upper_char(c) ==
    IF \E i \in DOMAIN LowerLetters : LowerLetters[i] = c
    THEN UpperLetters[CHOOSE i \in DOMAIN LowerLetters : LowerLetters[i] = c]
    ELSE c

\* str.upper()
upper(s) == [i \in DOMAIN s |-> upper_char(s[i])]

chess_com == <<"c", "h", "e", "s", "s", ".", "c", "o", "m">>

-----------------------------------------------------------------------------
(* Result classifier *)

\* A slip: the names compared as spelled.
get_game_result_case_sensitive(game, username) ==
    LET side == IF username = game.white.username THEN "W" ELSE "B"
        res == IF side = "W" THEN game.white.result ELSE game.black.result
    IN  IF username # game.white.username /\ username # game.black.username
        THEN [res |-> "D", side |-> None]
        ELSE IF res = "win"
        THEN [res |-> "W", side |-> side]
        ELSE IF res \in {"checkmated", "resigned", "timeout", "abandoned", "lose"}
        THEN [res |-> "L", side |-> side]
        ELSE [res |-> "D", side |-> side]

\* A slip: "abandoned" left out of the losses.
get_game_result_abandoned_missing(game, username) ==
    LET user == lower(username)
        white == lower(game.white.username)
        black == lower(game.black.username)
        side == IF user = white THEN "W" ELSE "B"
        res == IF user = white THEN game.white.result ELSE game.black.result
    IN  IF user # white /\ user # black
        THEN [res |-> "D", side |-> None]
        ELSE IF res = "win"
        THEN [res |-> "W", side |-> side]
        ELSE IF res \in {"checkmated", "resigned", "timeout", "lose"}
        THEN [res |-> "L", side |-> side]
        ELSE [res |-> "D", side |-> side]

\* get_game_result(game, username): [res, side].  A game record without a
\* username or result carries the default "" of dict.get.
get_game_result(game, username) ==
    LET user == lower(username)
        white == lower(game.white.username)
        black == lower(game.black.username)
        white_result == game.white.result
        black_result == game.black.result
        side == IF user = white THEN "W" ELSE "B"
        res == IF user = white THEN white_result ELSE black_result
    IN  IF user # white /\ user # black
        THEN [res |-> "D", side |-> None]
        ELSE IF res = "win"
        THEN [res |-> "W", side |-> side]
        ELSE IF res \in {"checkmated", "resigned", "timeout", "abandoned", "lose"}
        THEN [res |-> "L", side |-> side]
        ELSE IF res \in {"agreed", "repetition", "stalemate", "insufficient"}
        THEN [res |-> "D", side |-> side]
        ELSE [res |-> "D", side |-> side]

-----------------------------------------------------------------------------
(* Ratings: _to_int, _parse_rating_diff, extract_game_details *)

\* The value of a rating tag of the PGN, or of the "rating" member of a player:
\* not there, a text int() reads as the number n ("1508", "+8", "-12"), or a
\* text int() refuses ("?", "").
Absent == [kind |-> "absent", n |-> 0]
IntText(n) == [kind |-> "int", n |-> n]
Junk == [kind |-> "junk", n |-> 0]

\* _to_int(s): int(str(s).strip()), None when int() raises (str(None) is "None").
to_int(s) == IF s.kind = "int" THEN Some(s.n) ELSE Nothing

\* _parse_rating_diff(s): None for None and for "", else int(s), None when it
\* raises.
parse_rating_diff(s) == IF s.kind = "int" THEN Some(s.n) ELSE Nothing

\* The members of extract_game_details(game, username) the summary reads:
\* me_side, my_rating_after, my_diff, my_rating_before.
extract_game_details(game, username) ==
    LET username_l == lower(username)
        white_l == lower(game.white.username)
        black_l == lower(game.black.username)
        me_side == IF username_l = white_l THEN "W"
                   ELSE IF username_l = black_l THEN "B" ELSE None
        white_elo_tag == to_int(game.pgn.WhiteElo)
        black_elo_tag == to_int(game.pgn.BlackElo)
        white_rating_after ==
            IF white_elo_tag # Nothing THEN white_elo_tag ELSE to_int(game.white.rating)
        black_rating_after ==
            IF black_elo_tag # Nothing THEN black_elo_tag ELSE to_int(game.black.rating)
        white_diff == parse_rating_diff(game.pgn.WhiteRatingDiff)
        black_diff == parse_rating_diff(game.pgn.BlackRatingDiff)
        my_rating_after == IF me_side = "W" THEN white_rating_after
                           ELSE IF me_side = "B" THEN black_rating_after ELSE Nothing
        my_diff == IF me_side = "W" THEN white_diff
                   ELSE IF me_side = "B" THEN black_diff ELSE Nothing
        my_rating_before ==
            IF my_rating_after # Nothing /\ my_diff # Nothing
            THEN Some(my_rating_after[1] - my_diff[1])
            ELSE Nothing
    IN  [ me_side |-> me_side,
          my_rating_before |-> my_rating_before,
          my_rating_after |-> my_rating_after,
          my_diff |-> my_diff ]

-----------------------------------------------------------------------------
(* main(): the command line *)

\* An option of the command line is <<"omitted", 0>> when it is not given,
\* <<"n", k>> when it is given the number k, and --days may be <<"all", 0>>.
Omitted == <<"omitted", 0>>
Given(k) == <<"n", k>>
All == <<"all", 0>>

\* parse_days(s): "all" for "all", else the number (>= 1).
parse_days(s) == IF s[1] = "all" THEN Nothing ELSE Some(s[2])

\* parser.parse_args(): --days has the default 1, --games the default None.
parse_args(cmd) ==
    [ user |-> cmd.user,
      gap |-> cmd.gap,
      day_cutoff_hour |-> cmd.day_cutoff_hour,
      days |-> IF cmd.days = Omitted THEN Some(1) ELSE parse_days(cmd.days),
      games |-> IF cmd.games = Omitted THEN Nothing ELSE Some(cmd.games[2]) ]

-----------------------------------------------------------------------------
(* main(): selecting and parsing the games *)

\* dt.datetime.now(LOCAL_TZ) of the run, as an instant: 2024-11-04T03:00Z,
\* which is 22:00 on 3 November in New York.
now == Instant(2024, 11, 4, 3, 0, 0)

day_shift == Hours(args.day_cutoff_hour)

today == shifted_date(astimezone(now), day_shift)

\* cutoff = None for --days all, else today - timedelta(days=days - 1).
cutoff ==
    IF args.days = Nothing THEN Nothing ELSE Some(today - (args.days[1] - 1))

\* The tuple main() appends for game g whose times parsed as t.
event(g, t) ==
    LET r == get_game_result(g, args.user)
    IN  [start |-> t.start, end |-> t.end, res |-> r.res, side |-> r.side, g |-> g]

\* Whether the loop body of main() appends game g (it skips coach games, games
\* against the chess.com account, games without times and games outside the
\* day window).
keeps(g, t) ==
    /\ g.pgn.Event # "Play vs Coach"
    /\ lower(g.white.username) # chess_com
    /\ lower(g.black.username) # chess_com
    /\ t.st = "ok"
    /\ \/ cutoff = Nothing
       \/ LET game_day == shifted_date(astimezone(t.start), day_shift)
          IN  cutoff[1] <= game_day /\ game_day <= today

\* Whether the loop body of main() reaches parse_pgn_times for game g.
reaches_parse(g) ==
    /\ g.pgn.Event # "Play vs Coach"
    /\ lower(g.white.username) # chess_com
    /\ lower(g.black.username) # chess_com

RECURSIVE parse_loop(_, _)
\* for g in games: ... parsed.append(...).  The result is the list built, or the
\* ValueError that left the loop.
parse_loop(gs, acc) ==
    IF gs = <<>> THEN [st |-> "ok", parsed |-> acc]
    ELSE LET g == Head(gs)
             t == parse_pgn_times(g.pgn)
         IN  IF reaches_parse(g) /\ t.st = "ValueError"
             THEN [st |-> "ValueError"]
             ELSE parse_loop(Tail(gs), IF keeps(g, t) THEN Append(acc, event(g, t)) ELSE acc)

RECURSIVE insert_by_start(_, _)
\* e placed after every element of the sorted list s whose start is <= e.start.
insert_by_start(s, e) ==
    IF s = <<>> THEN <<e>>
    ELSE IF Last(s).start <= e.start THEN Append(s, e)
    ELSE Append(insert_by_start(SubSeq(s, 1, Len(s) - 1), e), Last(s))

\* A slip: the list is left in the order the games were fetched in.
sort_by_start_skipped(s) == s

RECURSIVE sort_by_start(_)
\* parsed.sort(key=lambda x: x[0]): a stable sort.
sort_by_start(s) ==
    IF s = <<>> THEN <<>>
    ELSE insert_by_start(sort_by_start(SubSeq(s, 1, Len(s) - 1)), Last(s))

\* parsed = parsed[-args.games:] when --games is a positive number.
limit_games(s) ==
    IF args.games # Nothing /\ args.games[1] > 0 THEN Tail_n(s, args.games[1]) ELSE s

\* A slip: the run goes on with an empty list.
no_games_never(events) == FALSE

\* "if not parsed": the run prints "No games found." and returns.
no_games(events) == events = <<>>

-----------------------------------------------------------------------------
(* The month cache on disk: _cache_path, _read_cached_month, _write_cached_month *)

RECURSIVE lstrip(_)
lstrip(s) == IF s # <<>> /\ Head(s) = " " THEN lstrip(Tail(s)) ELSE s

RECURSIVE rstrip(_)
rstrip(s) ==
    IF s # <<>> /\ Last(s) = " " THEN rstrip(SubSeq(s, 1, Len(s) - 1)) ELSE s

\* str.strip()
strip(s) == rstrip(lstrip(s))

\* safe_user = (username or "").strip().lower()
safe_user(username) == lower(strip(username))

\* os.path.join(CACHE_ROOT, safe_user, f"{year}-{month:02d}.json")
cache_path(username, year, month) ==
    [user |-> safe_user(username), year |-> year, month |-> month, tmp |-> FALSE]

\* tmp = f"{path}.tmp"
tmp_path(path) == [path EXCEPT !.tmp = TRUE]

\* A JSON value: an object with its "games" member ([] when it has none), or a
\* value that is not an object.
Dict(gs) == [type |-> "dict", games |-> gs]
NotDict == [type |-> "list", games |-> <<>>]

\* The file json.dump(payload, f) writes, and the file it leaves when it raises
\* on the way.
json_dump(payload) == [complete |-> TRUE, value |-> payload]
json_dump_cut_short(payload) == [complete |-> FALSE, value |-> payload]

\* json.load(f): the value, or nothing when it raises.
json_load(file) == IF file.complete THEN Some(file.value) ELSE Nothing

write_file(d, path, file) ==
    [p \in DOMAIN d \cup {path} |-> IF p = path THEN file ELSE d[p]]

remove_file(d, path) == [p \in DOMAIN d \ {path} |-> d[p]]

\* _read_cached_month: None when the file is not there or cannot be loaded.
read_cached_month(d, username, year, month) ==
    LET path == cache_path(username, year, month)
    IN  IF path \notin DOMAIN d THEN Nothing ELSE json_load(d[path])

\* The step of _write_cached_month that raises: none, os.makedirs, the write
\* of the temporary file (open, json.dump), os.replace; "cleanup" is the write
\* raising and os.remove(tmp) raising after it.
WriteFaults == {"none", "makedirs", "dump", "replace", "cleanup"}

\* _write_cached_month: os.makedirs is called before the try block, so what it
\* raises leaves the function; what open, json.dump and os.replace raise is
\* caught, and the handler removes the temporary file if it can.
write_cached_month(d, username, year, month, payload, fault) ==
    LET path == cache_path(username, year, month)
        tmp == tmp_path(path)
    IN  IF fault = "makedirs"
        THEN [st |-> "OSError", disk |-> d]
        ELSE IF fault = "none"
        THEN [st |-> "ok", disk |-> remove_file(write_file(d, path, json_dump(payload)), tmp)]
        ELSE IF fault = "cleanup"
        THEN [st |-> "ok", disk |-> write_file(d, tmp, json_dump_cut_short(payload))]
        ELSE [st |-> "ok", disk |-> remove_file(d, tmp)]

-----------------------------------------------------------------------------
(* Fetching: fetch_month_games, month_iter, month_iter_backwards *)

\* A slip: the current month taken from the UTC date.
is_current_month_utc(at, year, month) ==
    LET date == at \div 86400
    IN  year = date_year(date) /\ month = date_month(date)

\* today = dt.datetime.now(LOCAL_TZ).date()
\* is_current_month = (year == today.year and month == today.month)
is_current_month(at, year, month) ==
    LET date == astimezone(at) \div 86400
    IN  year = date_year(date) /\ month = date_month(date)

\* What requests.get, raise_for_status and resp.json() make of a call: a JSON
\* value, or an exception.
Reply(payload) == [st |-> "ok", value |-> payload]
HTTPError == [st |-> "HTTPError", value |-> NotDict]

\* fetch_month_games(username, year, month) called at the instant at, on the
\* disk d, when the server answers reply and the write of the cache file meets
\* fault.  The result: how the call ended, the games returned, the disk after
\* it, and whether it called the network, read the cache, wrote the cache.
fetch_month_games(d, at, username, year, month, reply, fault) ==
    LET current == is_current_month(at, year, month)
        cached == IF current THEN Nothing
                  ELSE read_cached_month(d, username, year, month)
    IN  IF cached # Nothing /\ cached[1].type = "dict"
        THEN [ st |-> "ok", games |-> cached[1].games, disk |-> d,
               network |-> FALSE, read |-> TRUE, wrote |-> FALSE ]
        ELSE IF reply.st # "ok"
        THEN [ st |-> reply.st, games |-> <<>>, disk |-> d,
               network |-> TRUE, read |-> ~current, wrote |-> FALSE ]
        ELSE IF reply.value.type # "dict"
        THEN [ st |-> "ok", games |-> <<>>, disk |-> d,
               network |-> TRUE, read |-> ~current, wrote |-> FALSE ]
        ELSE IF current
        THEN [ st |-> "ok", games |-> reply.value.games, disk |-> d,
               network |-> TRUE, read |-> FALSE, wrote |-> FALSE ]
        ELSE LET w == write_cached_month(d, username, year, month, reply.value, fault)
             IN  [ st |-> w.st,
                   games |-> IF w.st = "ok" THEN reply.value.games ELSE <<>>,
                   disk |-> w.disk,
                   network |-> TRUE, read |-> TRUE, wrote |-> TRUE ]

RECURSIVE months_from(_, _, _, _)
\* while (y, m) <= (end_y, end_m): yield y, m; ...
months_from(y, m, end_y, end_m) ==
    IF y < end_y \/ (y = end_y /\ m <= end_m)
    THEN <<<<y, m>>>> \o (IF m = 12 THEN months_from(y + 1, 1, end_y, end_m)
                                   ELSE months_from(y, m + 1, end_y, end_m))
    ELSE <<>>

\* month_iter(start_date, end_date)
month_iter(start_date, end_date) ==
    months_from(date_year(start_date), date_month(start_date),
                date_year(end_date), date_month(end_date))

RECURSIVE months_back(_, _, _)
\* for _ in range(max_months): yield y, m; ...
months_back(y, m, k) ==
    IF k <= 0 THEN <<>>
    ELSE <<<<y, m>>>> \o (IF m = 1 THEN months_back(y - 1, 12, k - 1)
                                  ELSE months_back(y, m - 1, k - 1))

\* The default of month_iter_backwards(end_date, max_months=36).
max_months == 36

\* month_iter_backwards(end_date, max_months)
month_iter_backwards(end_date, months) ==
    months_back(date_year(end_date), date_month(end_date), months)

\* The server's answer for a month: the payload it holds, or an object with an
\* empty "games" list for a month it holds no games of.
reply_of(year, month) ==
    Reply(IF <<year, month>> \in DOMAIN archive THEN archive[<<year, month>>]
          ELSE Dict(<<>>))

RECURSIVE fetch_months(_, _, _, _)
\* for y, m in months: games.extend(fetch_month_games(username, y, m)), with a
\* server that answers and a disk that takes the writes.  The result is the
\* list and the disk, or the exception that left the loop.
fetch_months(d, username, months, acc) ==
    IF months = <<>> THEN [st |-> "ok", games |-> acc, disk |-> d]
    ELSE LET ym == Head(months)
             f == fetch_month_games(d, now, username, ym[1], ym[2],
                                    reply_of(ym[1], ym[2]), "none")
         IN  IF f.st # "ok" THEN [st |-> f.st, games |-> acc, disk |-> f.disk]
             ELSE fetch_months(f.disk, username, Tail(months), acc \o f.games)

-----------------------------------------------------------------------------
(* fetch_most_recent_games, of sessions.py and of fetching.py *)

\* is_skippable(game) of fetching.py
is_skippable(g) ==
    \/ g.pgn.Event = "Play vs Coach"
    \/ lower(g.white.username) = chess_com
    \/ lower(g.black.username) = chess_com

\* parse_pgn_times as the module holds it: sessions.py has its own, fetching.py
\* imports the one of parsing.py.
times_in(module, pgn) ==
    IF module = "sessions" THEN parse_pgn_times(pgn) ELSE parsing_parse_pgn_times(pgn)

RECURSIVE recent_parse_loop(_, _, _, _)
\* for g in games: ... parsed.append((start, end, res, side, g)), without a day
\* window.
recent_parse_loop(module, gs, username, acc) ==
    IF gs = <<>> THEN [st |-> "ok", parsed |-> acc]
    ELSE LET g == Head(gs)
             t == times_in(module, g.pgn)
             r == get_game_result(g, username)
         IN  IF is_skippable(g) THEN recent_parse_loop(module, Tail(gs), username, acc)
             ELSE IF t.st = "ValueError" THEN [st |-> "ValueError", parsed |-> acc]
             ELSE IF t.st # "ok" THEN recent_parse_loop(module, Tail(gs), username, acc)
             ELSE recent_parse_loop(module, Tail(gs), username,
                      Append(acc, [ start |-> t.start, end |-> t.end,
                                    res |-> r.res, side |-> r.side, g |-> g ]))

RECURSIVE recent_month_loop(_, _, _, _, _, _)
\* for y, m in month_iter_backwards(now.date()): ...; if len(parsed) >= n: break
recent_month_loop(module, d, username, n, months, acc) ==
    IF months = <<>> THEN [st |-> "ok", parsed |-> acc, disk |-> d]
    ELSE LET ym == Head(months)
             f == fetch_month_games(d, now, username, ym[1], ym[2],
                                    reply_of(ym[1], ym[2]), "none")
             p == recent_parse_loop(module, f.games, username, acc)
         IN  IF f.st # "ok" THEN [st |-> f.st, parsed |-> acc, disk |-> f.disk]
             ELSE IF p.st # "ok" THEN [st |-> p.st, parsed |-> acc, disk |-> f.disk]
             ELSE IF Len(p.parsed) >= n THEN [st |-> "ok", parsed |-> p.parsed, disk |-> f.disk]
             ELSE recent_month_loop(module, f.disk, username, n, Tail(months), p.parsed)

\* The body the two fetch_most_recent_games share: [] for n <= 0, else the
\* month walk, parsed.sort(key=lambda x: x[0]) and parsed[-n:].
most_recent_games(module, d, username, n) ==
    IF n <= 0 THEN [st |-> "ok", parsed |-> <<>>, disk |-> d]
    ELSE LET r == recent_month_loop(module, d, username, n,
                      month_iter_backwards(astimezone(now) \div 86400, max_months), <<>>)
         IN  IF r.st # "ok" THEN r
             ELSE [ st |-> "ok",
                    parsed |-> Tail_n(sort_by_start(r.parsed), n),
                    disk |-> r.disk ]

\* fetch_most_recent_games of sessions.py
fetch_most_recent_games(d, username, n) == most_recent_games("sessions", d, username, n)

\* fetch_most_recent_games of fetching.py
fetching_fetch_most_recent_games(d, username, n) ==
    most_recent_games("fetching", d, username, n)

-----------------------------------------------------------------------------
(* Country lookup of sessions.py: the module globals, load_country_cache,
   save_country_cache, get_player_country, get_country_name *)

Str_unknown == <<"_", "u", "n", "k", "n", "o", "w", "n">>

\* The directory of _country_cache_path(for_user), which holds country_cache.json:
\* safe_user = (for_user or "").strip().lower() or "_unknown"
country_cache_path(for_user) ==
    IF safe_user(for_user) = <<>> THEN Str_unknown ELSE safe_user(for_user)

\* A cache file or a cache entry: the file country_cache.json or 2024-10.json of
\* a user directory, an entry of one of the two dictionaries, the dirty flag.
Place(store, key) == [store |-> store, key |-> key]

\* dict.update(other)
update(d, other) ==
    [k \in DOMAIN d \cup DOMAIN other |-> IF k \in DOMAIN other THEN other[k] ELSE d[k]]

\* d[k] = v
set_item(d, k, v) == [j \in DOMAIN d \cup {k} |-> IF j = k THEN v ELSE d[j]]

\* load_country_cache(for_user): when the file is there and loads, the two
\* global dictionaries are updated with its "player_country" and
\* "country_name".  The result: the dictionaries after it, what was read and
\* what was written.
load_country_cache(files, players, names, for_user) ==
    LET path == country_cache_path(for_user)
        payload == IF path \in DOMAIN files THEN json_load(files[path]) ELSE Nothing
    IN  IF payload = Nothing
        THEN [ players |-> players, names |-> names,
               reads |-> {Place("country_cache.json", path)}, writes |-> {} ]
        ELSE [ players |-> update(players, payload[1].player_country),
               names |-> update(names, payload[1].country_name),
               reads |-> {Place("country_cache.json", path)},
               writes |-> { Place("_opponent_country_cache", k) :
                                k \in DOMAIN payload[1].player_country }
                          \cup { Place("_country_name_cache", k) :
                                    k \in DOMAIN payload[1].country_name } ]

\* save_country_cache(for_user): nothing when the flag is not set; else the two
\* global dictionaries are dumped to the file and the flag is cleared, or, when
\* a step of the write raises, file and flag stay as they are.
save_country_cache(files, players, names, dirty, for_user, fault) ==
    LET path == country_cache_path(for_user)
        everything == { Place("_opponent_country_cache", k) : k \in DOMAIN players }
                          \cup { Place("_country_name_cache", k) : k \in DOMAIN names }
    IN  IF ~dirty
        THEN [ files |-> files, dirty |-> dirty,
               reads |-> {Place("_country_cache_dirty", <<>>)}, writes |-> {} ]
        ELSE IF fault # "none"
        THEN [ files |-> files, dirty |-> dirty,
               reads |-> {Place("_country_cache_dirty", <<>>)} \cup everything,
               writes |-> {} ]
        ELSE [ files |-> set_item(files, path,
                            json_dump([ type |-> "dict", player_country |-> players,
                                        country_name |-> names ])),
               dirty |-> FALSE,
               reads |-> {Place("_country_cache_dirty", <<>>)} \cup everything,
               writes |-> { Place("country_cache.json", path),
                            Place("_country_cache_dirty", <<>>) } ]

\* get_player_country(username) when the player endpoint answers reply, which is
\* <<code>> (the last segment of the "country" URL) or <<>> (an exception, or no
\* country): the cached value if there is one; else the code, stored with the
\* flag set, or None, stored.
get_player_country(players, dirty, username, reply) ==
    LET u == lower(strip(username))
    IN  IF u = <<>>
        THEN [ value |-> Nothing, players |-> players, dirty |-> dirty,
               reads |-> {}, writes |-> {} ]
        ELSE IF u \in DOMAIN players
        THEN [ value |-> players[u], players |-> players, dirty |-> dirty,
               reads |-> {Place("_opponent_country_cache", u)}, writes |-> {} ]
        ELSE IF reply # Nothing /\ strip(reply[1]) # <<>>
        THEN [ value |-> reply, players |-> set_item(players, u, reply), dirty |-> TRUE,
               reads |-> {Place("_opponent_country_cache", u)},
               writes |-> { Place("_opponent_country_cache", u),
                            Place("_country_cache_dirty", <<>>) } ]
        ELSE [ value |-> Nothing, players |-> set_item(players, u, Nothing),
               dirty |-> dirty,
               reads |-> {Place("_opponent_country_cache", u)},
               writes |-> {Place("_opponent_country_cache", u)} ]

\* get_country_name(country_code) when the country endpoint answers reply, which
\* is <<name>> or <<>>.
get_country_name(names, dirty, country_code, reply) ==
    LET code == upper(strip(country_code))
    IN  IF code = <<>>
        THEN [ value |-> Nothing, names |-> names, dirty |-> dirty,
               reads |-> {}, writes |-> {} ]
        ELSE IF code \in DOMAIN names
        THEN [ value |-> names[code], names |-> names, dirty |-> dirty,
               reads |-> {Place("_country_name_cache", code)}, writes |-> {} ]
        ELSE IF reply # Nothing /\ strip(reply[1]) # <<>>
        THEN [ value |-> Some(strip(reply[1])),
               names |-> set_item(names, code, Some(strip(reply[1]))), dirty |-> TRUE,
               reads |-> {Place("_country_name_cache", code)},
               writes |-> { Place("_country_name_cache", code),
                            Place("_country_cache_dirty", <<>>) } ]
        ELSE [ value |-> Nothing, names |-> set_item(names, code, Nothing),
               dirty |-> dirty,
               reads |-> {Place("_country_name_cache", code)},
               writes |-> {Place("_country_name_cache", code)} ]

\* The files of the directory os.path.join(CACHE_ROOT, safe_user); with an
\* empty safe_user the directory is CACHE_ROOT itself.
in_dir(file_user, dir) == dir = <<>> \/ file_user = dir

\* main() under --no-cache: shutil.rmtree(user_cache_dir) when the directory
\* is there, with safe_user = args.user.strip().lower().  The month files and
\* the country files after it, and the files removed.
clear_user_cache(d, files, username) ==
    LET dir == lower(strip(username))
        months == { p \in DOMAIN d : in_dir(p.user, dir) }
        countries == { u \in DOMAIN files : in_dir(u, dir) }
    IN  [ disk |-> [p \in DOMAIN d \ months |-> d[p]],
          files |-> [u \in DOMAIN files \ countries |-> files[u]],
          writes |-> { Place("2024-10.json", p.user) : p \in months }
                     \cup { Place("country_cache.json", u) : u \in countries } ]

-----------------------------------------------------------------------------
(* main(): sessions, day buckets, the result strip *)

\* A slip: the event that opens a session is dropped.
new_session_without_game(game) == <<>>

\* cur = [game]
new_session(game) == <<game>>

\* A slip: "<" for "<=".
within_gap_strict(game, session, gap_minutes) ==
    game.start - Last(session).end < Minutes(gap_minutes)

\* A slip: the gap measured from the previous start instead of the previous end.
within_gap_from_start(game, session, gap_minutes) ==
    game.start - Last(session).start <= Minutes(gap_minutes)

\* A slip: gap = timedelta(seconds=args.gap).
within_gap_in_seconds(game, session, gap_minutes) ==
    game.start - Last(session).end <= gap_minutes

\* game[0] - cur[-1][1] <= gap, with gap = timedelta(minutes=args.gap)
within_gap(game, session, gap_minutes) ==
    game.start - Last(session).end <= Minutes(gap_minutes)

\* A slip: the day taken from the last event of the session.
session_day_of_last_event(sess, shift) ==
    shifted_date(astimezone(Last(sess).start), shift)

\* day = (sess[0][0].astimezone(LOCAL_TZ) - day_shift).date()
session_day(sess, shift) ==
    shifted_date(astimezone(sess[1].start), shift)

\* A slip: the session replaces the sessions the day already holds.
append_to_day_overwriting(by_day, day, sess) ==
    IF day \in DOMAIN by_day
    THEN [by_day EXCEPT ![day] = <<sess>>]
    ELSE by_day @@ (day :> <<sess>>)

\* sessions_by_day[day].append(sess), sessions_by_day being a defaultdict(list)
append_to_day(by_day, day, sess) ==
    IF day \in DOMAIN by_day
    THEN [by_day EXCEPT ![day] = Append(@, sess)]
    ELSE by_day @@ (day :> <<sess>>)

RECURSIVE sorted_descending(_)
\* A slip: the keys, latest day first.
sorted_descending(keys) ==
    IF keys = {} THEN <<>>
    ELSE LET greatest == CHOOSE d \in keys : \A e \in keys : e <= d
         IN  <<greatest>> \o sorted_descending(keys \ {greatest})

RECURSIVE sorted(_)
\* sorted(sessions_by_day): the keys, ascending.
sorted(keys) ==
    IF keys = {} THEN <<>>
    ELSE LET least == CHOOSE d \in keys : \A e \in keys : d <= e
         IN  <<least>> \o sorted(keys \ {least})

\* The sessions of every day, days taken in sorted order.
sessions_in_day_order(by_day) ==
    LET days == sorted(DOMAIN by_day)
    IN  Concat([i \in DOMAIN days |-> by_day[days[i]]])

\* A slip: the days taken latest first, sorted(sessions_by_day, reverse=True).
flat_results_latest_day_first(by_day) ==
    LET days == sorted_descending(DOMAIN by_day)
        gs == Concat(Concat([i \in DOMAIN days |-> by_day[days[i]]]))
    IN  [i \in DOMAIN gs |-> <<gs[i].res, gs[i].side>>]

\* flat = [(g[2], g[3]) for day in sorted(sessions_by_day)
\*                       for s in sessions_by_day[day] for g in s]
flat_results(by_day) ==
    LET gs == Concat(sessions_in_day_order(by_day))
    IN  [i \in DOMAIN gs |-> <<gs[i].res, gs[i].side>>]

-----------------------------------------------------------------------------
(* main(): the summary *)

RECURSIVE tally(_, _)
\* sum(1 for r, _ in flat if r == res)
tally(pairs, res) ==
    IF pairs = <<>> THEN 0
    ELSE (IF Head(pairs)[1] = res THEN 1 ELSE 0) + tally(Tail(pairs), res)

RECURSIVE side_tally_unknown_as_white(_, _, _)
\* A slip: an event without a side is counted with the White events.
side_tally_unknown_as_white(pairs, res, side) ==
    IF pairs = <<>> THEN 0
    ELSE (IF /\ Head(pairs)[1] = res
             /\ \/ Head(pairs)[2] = side
                \/ (side = "W" /\ Head(pairs)[2] = None)
          THEN 1 ELSE 0)
         + side_tally_unknown_as_white(Tail(pairs), res, side)

RECURSIVE side_tally(_, _, _)
\* sum(1 for r, s in flat if r == res and s == side)
side_tally(pairs, res, side) ==
    IF pairs = <<>> THEN 0
    ELSE (IF Head(pairs)[1] = res /\ Head(pairs)[2] = side THEN 1 ELSE 0)
         + side_tally(Tail(pairs), res, side)

\* round(n / d * 100) if d else 0.  round() takes a half to the even neighbour.
pct(n, d) ==
    IF d = 0 THEN 0
    ELSE LET q == (n * 100) \div d
             r == (n * 100) % d
         IN  IF 2 * r < d THEN q
             ELSE IF 2 * r > d THEN q + 1
             ELSE IF q % 2 = 0 THEN q ELSE q + 1

RECURSIVE elo_start_without_break(_, _)
\* A slip: the scan does not stop at the first event that has a rating before.
elo_start_without_break(events, user) ==
    IF events = <<>> THEN Nothing
    ELSE LET details == extract_game_details(Last(events).g, user)
         IN  IF details.my_rating_before # Nothing THEN details.my_rating_before
             ELSE elo_start_without_break(SubSeq(events, 1, Len(events) - 1), user)

RECURSIVE elo_start(_, _)
\* for g in parsed: ... if details.get("my_rating_before") is not None:
\*     elo_start = details["my_rating_before"]; break
elo_start(events, user) ==
    IF events = <<>> THEN Nothing
    ELSE LET details == extract_game_details(Head(events).g, user)
         IN  IF details.my_rating_before # Nothing THEN details.my_rating_before
             ELSE elo_start(Tail(events), user)

RECURSIVE elo_end(_, _)
\* for g in reversed(parsed): ... if details.get("my_rating_after") is not None:
\*     elo_end = details["my_rating_after"]; break
elo_end(events, user) ==
    IF events = <<>> THEN Nothing
    ELSE LET details == extract_game_details(Last(events).g, user)
         IN  IF details.my_rating_after # Nothing THEN details.my_rating_after
             ELSE elo_end(SubSeq(events, 1, Len(events) - 1), user)

\* elo_delta = (elo_end - elo_start) if both are not None else None
elo_delta(first, last) ==
    IF first # Nothing /\ last # Nothing THEN Some(last[1] - first[1]) ELSE Nothing

\* The numbers of the summary table and the "Elo: a to b (d)" line, which is
\* printed when elo_start, elo_end and elo_delta are all not None.
summary_of(pairs, events, user) ==
    LET wins == tally(pairs, "W")
        losses == tally(pairs, "L")
        draws == tally(pairs, "D")
        total == wins + losses + draws
        w_wins == side_tally(pairs, "W", "W")
        w_losses == side_tally(pairs, "L", "W")
        w_draws == side_tally(pairs, "D", "W")
        w_total == w_wins + w_losses + w_draws
        b_wins == side_tally(pairs, "W", "B")
        b_losses == side_tally(pairs, "L", "B")
        b_draws == side_tally(pairs, "D", "B")
        b_total == b_wins + b_losses + b_draws
        first == elo_start(events, user)
        last == elo_end(events, user)
        delta == elo_delta(first, last)
    IN  [ wins |-> wins, losses |-> losses, draws |-> draws, total |-> total,
          win_pct |-> pct(wins, total),
          w_wins |-> w_wins, w_losses |-> w_losses, w_draws |-> w_draws,
          w_total |-> w_total, w_pct |-> pct(w_wins, w_total),
          b_wins |-> b_wins, b_losses |-> b_losses, b_draws |-> b_draws,
          b_total |-> b_total, b_pct |-> pct(b_wins, b_total),
          elo_start |-> first, elo_end |-> last, elo_delta |-> delta,
          elo_printed |-> (first # Nothing /\ last # Nothing /\ delta # Nothing) ]

-----------------------------------------------------------------------------
(* The runs *)

\* The fetch of main().  Without --days argparse puts 1 in args.days, so the
\* test "args.days is None" of the first branch is never true of a parsed
\* command line.  An exception out of the fetch ends the run with a traceback.
Fetch ==
    /\ pc = "fetch"
    /\ IF args.days = None_days /\ args.games # Nothing /\ args.games[1] > 0
       THEN \E r \in {fetch_most_recent_games(disk, args.user, args.games[1])} :
                /\ pc' = IF r.st # "ok" THEN r.st
                         ELSE IF no_games(r.parsed) THEN "no_games" ELSE "segment"
                /\ parsed' = IF r.st = "ok" THEN r.parsed ELSE parsed
                /\ games' = games
                /\ disk' = r.disk
       ELSE \E r \in {fetch_months(disk, args.user,
                                    IF cutoff = Nothing
                                    THEN month_iter_backwards(today, max_months)
                                    ELSE month_iter(cutoff[1], today),
                                    <<>>)} :
                /\ pc' = IF r.st # "ok" THEN r.st ELSE "start"
                /\ games' = r.games
                /\ parsed' = parsed
                /\ disk' = r.disk
    /\ UNCHANGED <<others, args, cur, sessions, gi, si, sessions_by_day, flat, summary,
                   printed_days>>

\* fetch_most_recent_games(username, n) of fetching.py, called with the user
\* and the number of --games; the run ends when it has returned its list.
MostRecent ==
    /\ pc = "recent"
    /\ \E r \in {fetching_fetch_most_recent_games(disk, args.user, args.games[1])} :
           /\ pc' = IF r.st # "ok" THEN r.st ELSE "returned"
           /\ parsed' = IF r.st = "ok" THEN r.parsed ELSE parsed
           /\ disk' = r.disk
    /\ UNCHANGED <<others, args, games, cur, sessions, gi, si, sessions_by_day, flat,
                   summary, printed_days>>

\* The game loop and the sort of main(): a ValueError out of parse_pgn_times ends
\* the run with a traceback; an empty list ends it with "No games found.".
Parse ==
    /\ pc = "start"
    /\ LET r == parse_loop(games, <<>>)
       IN  IF r.st = "ValueError"
           THEN /\ pc' = "ValueError"
                /\ parsed' = parsed
           ELSE /\ parsed' = limit_games(sort_by_start(r.parsed))
                /\ pc' = IF no_games(parsed') THEN "no_games" ELSE "segment"
    /\ UNCHANGED <<others, disk, args, games, cur, sessions, gi, si, sessions_by_day, flat,
                   summary, printed_days>>

\* One pass of "for game in parsed".
SegmentStep ==
    /\ pc = "segment"
    /\ gi < Len(parsed)
    /\ LET game == parsed[gi + 1]
       IN  IF cur = <<>>
           THEN /\ cur' = new_session(game)
                /\ sessions' = sessions
           ELSE IF within_gap(game, cur, args.gap)
           THEN /\ cur' = Append(cur, game)
                /\ sessions' = sessions
           ELSE /\ sessions' = Append(sessions, cur)
                /\ cur' = new_session(game)
    /\ gi' = gi + 1
    /\ UNCHANGED <<others, disk, args, games, pc, parsed, si, sessions_by_day, flat, summary,
                   printed_days>>

\* After the loop: "if cur: sessions.append(cur)".
SegmentEnd ==
    /\ pc = "segment"
    /\ gi = Len(parsed)
    /\ sessions' = IF cur # <<>> THEN Append(sessions, cur) ELSE sessions
    /\ pc' = "bucket"
    /\ UNCHANGED <<others, disk, args, games, parsed, cur, gi, si, sessions_by_day, flat,
                   summary, printed_days>>

\* One pass of "for sess in sessions".
BucketStep ==
    /\ pc = "bucket"
    /\ si < Len(sessions)
    /\ LET sess == sessions[si + 1]
       IN  sessions_by_day' =
               append_to_day(sessions_by_day, session_day(sess, day_shift), sess)
    /\ si' = si + 1
    /\ UNCHANGED <<others, disk, args, games, pc, parsed, cur, sessions, gi, flat, summary,
                   printed_days>>

\* The result strip, the counts and the Elo range of the summary, and the day
\* rules of the report ("for day in sorted(sessions_by_day): console.rule(...)").
Summarise ==
    /\ pc = "bucket"
    /\ si = Len(sessions)
    /\ flat' = flat_results(sessions_by_day)
    /\ summary' = Some(summary_of(flat', parsed, args.user))
    /\ printed_days' = sorted(DOMAIN sessions_by_day)
    /\ pc' = "done"
    /\ UNCHANGED <<others, disk, args, games, parsed, cur, sessions, gi, si, sessions_by_day>>

Next ==
    \/ Parse
    \/ SegmentStep
    \/ SegmentEnd
    \/ BucketStep
    \/ Summarise

\* main() from its fetch on, and fetch_most_recent_games of fetching.py.
NextHistory ==
    \/ Fetch
    \/ MostRecent
    \/ Parse
    \/ SegmentStep
    \/ SegmentEnd
    \/ BucketStep
    \/ Summarise

-----------------------------------------------------------------------------
(* Inputs *)

Str_Bob == <<"B", "o", "b">>
Str_bob == <<"b", "o", "b">>
Str_BOB == <<"B", "O", "B">>
Str_amy == <<"a", "m", "y">>
Str_Amy == <<"A", "m", "y">>
Str_cat == <<"c", "a", "t">>

Player(username, result) ==
    [username |-> username, result |-> result, rating |-> Absent]

Pgn(date, utctime, endtime) ==
    [ UTCDate |-> date, UTCTime |-> utctime, EndTime |-> endtime,
      Event |-> "Live Chess",
      WhiteElo |-> Absent, BlackElo |-> Absent,
      WhiteRatingDiff |-> Absent, BlackRatingDiff |-> Absent ]

Game(white, black, pgn) == [white |-> white, black |-> black, pgn |-> pgn]

Nov2 == Tag(".", <<2024, 11, 2>>)
Nov3 == Tag(".", <<2024, 11, 3>>)
Clock(hh, mi) == Tag(":", <<hh, mi, 0>>)

BobBeatsAmy(pgn) == Game(Player(Str_Bob, "win"), Player(Str_amy, "resigned"), pgn)

\* Games told apart by their time tags: back to back (03:30-04:00, 04:00-05:40),
\* overlapping (05:30 starts before 05:40 ends), far apart (15:00),
\* and across midnight UTC (23:50-00:10).
TimedPgns ==
    { Pgn(Nov3, Clock(3, 30), Clock(4, 0)),
      Pgn(Nov3, Clock(4, 0), Clock(5, 40)),
      Pgn(Nov3, Clock(5, 30), Clock(5, 50)),
      Pgn(Nov3, Clock(15, 0), Clock(15, 20)),
      Pgn(Nov2, Clock(23, 50), Clock(0, 10)) }

TimedGames == { BobBeatsAmy(p) : p \in TimedPgns }

\* The command lines: --gap in minutes, --day-cutoff-hour, --days, --games.
ArgSets ==
    [ user : {Str_bob},
      gap : {-10, 0, 100},
      day_cutoff_hour : {0, 5},
      days : {All, Given(1)},
      games : {Omitted, Given(2)} ]

\* Games told apart by what is wrong with their time tags: a tag that is not
\* there, a tag whose value the pattern does not match ("2024-11-03", "03.30.00"),
\* and a tag the pattern matches and strptime refuses (month 13, hour 24, "03:30").
TaggedPgns ==
    { Pgn(Nov3, Clock(3, 30), Clock(4, 0)),
      Pgn(Nov2, Clock(23, 50), Clock(0, 10)),
      Pgn(NoTag, Clock(3, 30), Clock(4, 0)),
      Pgn(Nov3, NoTag, Clock(4, 0)),
      Pgn(Nov3, Clock(3, 30), NoTag),
      Pgn(Tag("-", <<2024, 11, 3>>), Clock(3, 30), Clock(4, 0)),
      Pgn(Nov3, Tag(".", <<3, 30, 0>>), Clock(4, 0)),
      Pgn(Tag(".", <<2024, 13, 1>>), Clock(3, 30), Clock(4, 0)),
      Pgn(Nov3, Clock(24, 0), Clock(4, 0)),
      Pgn(Nov3, Clock(3, 30), Tag(":", <<4, 0>>)) }

TaggedGames == { BobBeatsAmy(p) : p \in TaggedPgns }

TagArgSets ==
    [ user : {Str_bob},
      gap : {60},
      day_cutoff_hour : {5},
      days : {All, Given(1)},
      games : {Omitted} ]

\* The result keywords of the Chess.com API that the classifier names, two it
\* does not name, and the "" of a record without a result.
ResultKeywords ==
    { "win",
      "checkmated", "resigned", "timeout", "abandoned", "lose",
      "agreed", "repetition", "stalemate", "insufficient",
      "timevsinsufficient", "50move", "" }

\* The observer is Bob: as White, as Black under another spelling, or not in
\* the game.  One player's keyword ranges over ResultKeywords while the other's
\* is "win".
ResultGames ==
    LET pgn == Pgn(Nov3, Clock(15, 0), Clock(15, 20))
        pairs == { <<k, "win">> : k \in ResultKeywords }
                     \cup { <<"win", k>> : k \in ResultKeywords }
                     \cup { <<"resigned", "resigned">> }
    IN  { Game(Player(w, r[1]), Player(b, r[2]), pgn) :
              w \in {Str_bob, Str_Amy}, b \in {Str_BOB, Str_cat}, r \in pairs }
        \cup
        { Game(Player(chess_com, "win"), Player(Str_bob, "checkmated"), pgn),
          [ Game(Player(Str_bob, "win"), Player(Str_amy, "resigned"), pgn)
                EXCEPT !.pgn.Event = "Play vs Coach" ] }

ResultArgSets ==
    [ user : {Str_Bob},
      gap : {60},
      day_cutoff_hour : {5},
      days : {All},
      games : {Omitted} ]

\* What a game tells about a player's rating: the "rating" member of the player,
\* the Elo tag and the RatingDiff tag of the PGN.
RatingFacts ==
    { <<Absent, Absent, Absent>>,
      <<IntText(1500), Absent, Absent>>,
      <<IntText(1500), IntText(1508), IntText(8)>>,
      <<Absent, Junk, IntText(-12)>>,
      <<IntText(1490), Junk, IntText(-12)>> }

\* A game of white against black in which the facts are those of White.
RatedAsWhite(white, black, pgn, facts) ==
    [ Game(Player(white, "win"), Player(black, "resigned"), pgn)
          EXCEPT !.white.rating = facts[1],
                 !.pgn.WhiteElo = facts[2],
                 !.pgn.WhiteRatingDiff = facts[3] ]

\* A game of white against black in which the facts are those of Black.
RatedAsBlack(white, black, pgn, facts) ==
    [ Game(Player(white, "win"), Player(black, "resigned"), pgn)
          EXCEPT !.black.rating = facts[1],
                 !.pgn.BlackElo = facts[2],
                 !.pgn.BlackRatingDiff = facts[3] ]

\* The observer is bob: as White with every kind of rating facts, as Black, and
\* not in the game.  The games are played at 03:30 and at 15:00.
RatedGames ==
    LET pgns == { Pgn(Nov3, Clock(3, 30), Clock(4, 0)),
                  Pgn(Nov3, Clock(15, 0), Clock(15, 20)) }
    IN  { RatedAsWhite(Str_Bob, Str_amy, p, f) : p \in pgns, f \in RatingFacts }
        \cup
        { RatedAsBlack(Str_amy, Str_Bob, p, <<IntText(1520), IntText(1515), IntText(-5)>>) :
              p \in pgns }
        \cup
        { RatedAsWhite(Str_amy, Str_cat, p, <<IntText(1500), IntText(1508), IntText(8)>>) :
              p \in pgns }

RatingArgSets ==
    [ user : {Str_bob},
      gap : {60},
      day_cutoff_hour : {5},
      days : {All},
      games : {Omitted} ]

\* The command lines of the runs over a history of several months.
HistoryArgSets ==
    [ user : {Str_bob},
      gap : {60},
      day_cutoff_hour : {5},
      days : {Omitted, All, Given(1), Given(20)},
      games : {Omitted, Given(2)} ]

\* The months the server holds games of: the current one, the one before it,
\* and the 36th and the 37th counted backwards from the current one.
ArchiveMonths == {<<2024, 11>>, <<2024, 10>>, <<2021, 12>>, <<2021, 11>>}

\* A game of the given day that starts at noon UTC.
NoonGame(y, m, d) == BobBeatsAmy(Pgn(Tag(".", <<y, m, d>>), Clock(12, 0), Clock(12, 20)))

\* The games a month of the archive may hold.
GamesOfMonth(ym) ==
    IF ym = <<2024, 11>>
    THEN { BobBeatsAmy(Pgn(Nov3, Clock(15, 0), Clock(15, 20))),
           BobBeatsAmy(Pgn(Nov2, Clock(23, 50), Clock(0, 10))) }
    ELSE IF ym = <<2024, 10>> THEN { NoonGame(2024, 10, 20) }
    ELSE IF ym = <<2021, 12>> THEN { NoonGame(2021, 12, 10) }
    ELSE { NoonGame(2021, 11, 20) }

SeqsUpTo(S, n) == UNION { [1..k -> S] : k \in 0..n }

Archives ==
    { [ym \in ArchiveMonths |->
           Dict(IF ym = <<2024, 11>> THEN a ELSE IF ym = <<2024, 10>> THEN b
                ELSE IF ym = <<2021, 12>> THEN c ELSE e)] :
          a \in SeqsUpTo(GamesOfMonth(<<2024, 11>>), MaxMonthGames),
          b \in SeqsUpTo(GamesOfMonth(<<2024, 10>>), MaxMonthGames),
          c \in SeqsUpTo(GamesOfMonth(<<2021, 12>>), MaxMonthGames),
          e \in SeqsUpTo(GamesOfMonth(<<2021, 11>>), MaxMonthGames) }

\* The calls of fetch_month_games: for " Bob", for October and November 2024,
\* at 22:00 of 3 November in New York and at 22:00 of 31 October in New York
\* (02:00 of 1 November UTC).
Str_Bob_padded == <<" ", "B", "o", "b">>
CacheUsers == {Str_Bob_padded}
CacheMonths == {<<2024, 10>>, <<2024, 11>>}
CallInstants == {now, Instant(2024, 11, 1, 2, 0, 0)}

\* What the server answers: an object with one game, an object with two, a
\* JSON value that is not an object, an HTTP error.
Replies ==
    { Reply(Dict(<<NoonGame(2024, 10, 20)>>)),
      Reply(Dict(<<NoonGame(2024, 10, 20), NoonGame(2024, 10, 21)>>)),
      Reply(NotDict),
      HTTPError }

\* The cache before the first call: empty, or with an October file that cannot
\* be loaded, or with an October file that holds no object.
InitialDisks ==
    { <<>>,
      cache_path(Str_bob, 2024, 10) :> json_dump_cut_short(Dict(<<NoonGame(2024, 10, 20)>>)),
      cache_path(Str_bob, 2024, 10) :> json_dump(NotDict) }

\* No answer of the server: the call did not ask it.
NoReply == [st |-> "none", value |-> NotDict]

\* No call of fetch_month_games yet.
NoCall ==
    [ username |-> <<>>, year |-> 0, month |-> 0, at |-> 0,
      reply |-> NoReply, fault |-> "none",
      st |-> "none", games |-> <<>>, network |-> FALSE, read |-> FALSE,
      wrote |-> FALSE ]

\* The command line of a process in which main() is not running.
NoCommandLine ==
    [user |-> <<>>, gap |-> 60, day_cutoff_hour |-> 5, days |-> Omitted, games |-> Omitted]

\* One call of fetch_month_games, for some user and month at some instant,
\* whatever the server answers and whatever step of the cache write fails.  The
\* call is recorded with the answer it received, if it asked the server, and
\* with the failure it met, if it wrote the cache.
FetchMonthGames ==
    /\ pc = "library"
    /\ \E username \in CacheUsers, ym \in CacheMonths, at \in CallInstants,
          reply \in Replies, fault \in WriteFaults :
           \E r \in {fetch_month_games(disk, at, username, ym[1], ym[2], reply, fault)} :
               /\ disk' = r.disk
               /\ call' = [ username |-> username, year |-> ym[1], month |-> ym[2],
                            at |-> at,
                            reply |-> IF r.network THEN reply ELSE NoReply,
                            fault |-> IF r.wrote THEN fault ELSE "none",
                            st |-> r.st, games |-> r.games, network |-> r.network,
                            read |-> r.read, wrote |-> r.wrote ]
    /\ UNCHANGED <<argv, entry, archive, country_vars, main_vars>>

\* Calls of fetch_month_games, one after the other.
NextCache == FetchMonthGames


\* The country caches of a process that has looked nothing up, and no
\* invocation under watch.
NoCountryLookups ==
    /\ opponent_country_cache = <<>>
    /\ country_name_cache = <<>>
    /\ country_cache_dirty = FALSE
    /\ country_files = <<>>
    /\ inv = <<>>
    /\ touched = <<>>

\* The opponents, and what the server tells about them.
Str_dan == <<"d", "a", "n">>
Str_FR == <<"F", "R">>
Str_US == <<"U", "S">>
Str_France == <<"F", "r", "a", "n", "c", "e">>
Str_United_States == <<"U", "n", "i", "t", "e", "d", " ", "S", "t", "a", "t", "e", "s">>

\* The last segment of the "country" URL of the player endpoint.
country_of(username) == IF lower(username) = Str_cat THEN Str_FR ELSE Str_US

\* The "name" of the country endpoint.
name_of(code) == IF code = Str_FR THEN Str_France ELSE Str_United_States

\* After the steps of main() that use the caches: load_country_cache, the fetch
\* of the games, the country lookups of the detail lines, save_country_cache.
step_after(inv_pc) ==
    IF inv_pc = "load" THEN "clear"
    ELSE IF inv_pc = "clear" THEN "fetch"
    ELSE IF inv_pc = "fetch" THEN "details"
    ELSE "done"

\* load_country_cache(args.user) of invocation i.
LoadCountryCache ==
    /\ pc = "threads"
    /\ \E i \in DOMAIN inv :
           /\ inv[i].pc = "load"
           /\ \E r \in {load_country_cache(country_files, opponent_country_cache,
                                            country_name_cache, inv[i].user)} :
                  /\ opponent_country_cache' = r.players
                  /\ country_name_cache' = r.names
                  /\ touched' = [touched EXCEPT ![i].reads = @ \cup r.reads,
                                                ![i].writes = @ \cup r.writes]
           /\ inv' = [inv EXCEPT ![i].pc = step_after("load")]
    /\ UNCHANGED <<argv, entry, archive, call, disk, main_vars, country_cache_dirty,
                   country_files>>

\* "if args.no_cache:" of invocation i: the directory of the user is removed.
ClearUserCache ==
    /\ pc = "threads"
    /\ \E i \in DOMAIN inv :
           /\ inv[i].pc = "clear"
           /\ IF inv[i].no_cache
              THEN \E r \in {clear_user_cache(disk, country_files, inv[i].user)} :
                       /\ disk' = r.disk
                       /\ country_files' = r.files
                       /\ touched' = [touched EXCEPT ![i].writes = @ \cup r.writes]
              ELSE UNCHANGED <<disk, country_files, touched>>
           /\ inv' = [inv EXCEPT ![i].pc = step_after("clear")]
    /\ UNCHANGED <<argv, entry, archive, call, main_vars, opponent_country_cache,
                   country_name_cache, country_cache_dirty>>

\* The fetch of invocation i: fetch_month_games for October 2024.
FetchGames ==
    /\ pc = "threads"
    /\ \E i \in DOMAIN inv :
           /\ inv[i].pc = "fetch"
           /\ \E r \in {fetch_month_games(disk, now, inv[i].user, 2024, 10,
                                           Reply(Dict(<<NoonGame(2024, 10, 20)>>)), "none")} :
                  /\ disk' = r.disk
                  /\ touched' =
                         [touched EXCEPT
                              ![i].reads = @ \cup (IF r.read
                                  THEN {Place("2024-10.json", safe_user(inv[i].user))} ELSE {}),
                              ![i].writes = @ \cup (IF r.wrote
                                  THEN {Place("2024-10.json", safe_user(inv[i].user))} ELSE {})]
                  /\ inv' = [inv EXCEPT ![i].pc = step_after("fetch"),
                                        ![i].fetched = r.games]
    /\ UNCHANGED <<argv, entry, archive, call, main_vars, opponent_country_cache,
                   country_name_cache, country_cache_dirty, country_files>>

\* One detail line of invocation i: code = get_player_country(opp_user); if
\* code: name = get_country_name(code); country_str = name or code.
LookupCountry ==
    /\ pc = "threads"
    /\ \E i \in DOMAIN inv :
           /\ inv[i].pc = "details"
           /\ inv[i].opponents # <<>>
           /\ \E player_ok \in BOOLEAN, name_ok \in BOOLEAN :
               \E p \in {get_player_country(opponent_country_cache, country_cache_dirty,
                              Head(inv[i].opponents),
                              IF player_ok THEN Some(country_of(Head(inv[i].opponents)))
                              ELSE Nothing)} :
               \E n \in {IF p.value = Nothing
                          THEN [ value |-> Nothing, names |-> country_name_cache,
                                 dirty |-> p.dirty, reads |-> {}, writes |-> {} ]
                          ELSE get_country_name(country_name_cache, p.dirty, p.value[1],
                                   IF name_ok THEN Some(name_of(p.value[1])) ELSE Nothing)} :
                  /\ opponent_country_cache' = p.players
                  /\ country_name_cache' = n.names
                  /\ country_cache_dirty' = n.dirty
                  /\ touched' = [touched EXCEPT ![i].reads = @ \cup p.reads \cup n.reads,
                                                ![i].writes = @ \cup p.writes \cup n.writes]
                  /\ inv' = [inv EXCEPT
                                 ![i].opponents = Tail(@),
                                 ![i].output = Append(@, IF n.value # Nothing THEN n.value[1]
                                                         ELSE IF p.value # Nothing THEN p.value[1]
                                                         ELSE <<>>)]
    /\ UNCHANGED <<argv, entry, archive, call, disk, main_vars, country_files>>

\* save_country_cache(args.user) of invocation i, after all its output.
SaveCountryCache ==
    /\ pc = "threads"
    /\ \E i \in DOMAIN inv :
           /\ inv[i].pc = "details"
           /\ inv[i].opponents = <<>>
           /\ \E fault \in {"none", "write"} :
               \E r \in {save_country_cache(country_files, opponent_country_cache,
                              country_name_cache, country_cache_dirty, inv[i].user, fault)} :
                  /\ country_files' = r.files
                  /\ country_cache_dirty' = r.dirty
                  /\ touched' = [touched EXCEPT ![i].reads = @ \cup r.reads,
                                                ![i].writes = @ \cup r.writes]
           /\ inv' = [inv EXCEPT ![i].pc = step_after("details")]
    /\ UNCHANGED <<argv, entry, archive, call, disk, main_vars, opponent_country_cache,
                   country_name_cache>>

\* Two invocations of main() in one process, their steps interleaved.
NextShared ==
    \/ LoadCountryCache
    \/ ClearUserCache
    \/ FetchGames
    \/ LookupCountry
    \/ SaveCountryCache

InitWith(Args, Games, n) ==
    /\ argv \in Args
    /\ args = parse_args(argv)
    /\ entry = "main"
    /\ archive = <<>>
    /\ disk = <<>>
    /\ call = NoCall
    /\ NoCountryLookups
    /\ games \in SeqsUpTo(Games, n)
    /\ pc = "start"
    /\ parsed = <<>>
    /\ cur = <<>>
    /\ sessions = <<>>
    /\ gi = 0
    /\ si = 0
    /\ sessions_by_day = <<>>
    /\ flat = <<>>
    /\ summary = Nothing
    /\ printed_days = <<>>

\* Runs over games that differ in their times, under every command line.
Init == InitWith(ArgSets, TimedGames, MaxGames)

Spec == Init /\ [][Next]_vars

\* Games played at the same time: a long game (04:00-05:40), a short one begun
\* and ended while it runs (04:10-04:20), one begun shortly before the long one
\* ends (05:30-05:50), and one far from all of them (15:00-15:20).
OverlapPgns ==
    { Pgn(Nov3, Clock(4, 0), Clock(5, 40)),
      Pgn(Nov3, Clock(4, 10), Clock(4, 20)),
      Pgn(Nov3, Clock(5, 30), Clock(5, 50)),
      Pgn(Nov3, Clock(15, 0), Clock(15, 20)) }

OverlapGames == { BobBeatsAmy(p) : p \in OverlapPgns }

\* Runs over games played at the same time, under every command line.
InitOverlap == InitWith(ArgSets, OverlapGames, MaxGames)

SpecOverlap == InitOverlap /\ [][Next]_vars

\* Games of bob told apart by time and by outcome: a win as White late on
\* 2 November UTC, a loss as Black at 01:30 local daylight time, a draw as
\* White at 01:10 local standard time after the clock went back, and a game bob
\* did not play in (a draw with no side) at 15:00 UTC.
StripGames ==
    { Game(Player(Str_Bob, "win"), Player(Str_amy, "resigned"),
           Pgn(Nov2, Clock(23, 50), Clock(0, 10))),
      Game(Player(Str_amy, "win"), Player(Str_Bob, "checkmated"),
           Pgn(Nov3, Clock(5, 30), Clock(5, 50))),
      Game(Player(Str_Bob, "agreed"), Player(Str_amy, "agreed"),
           Pgn(Nov3, Clock(6, 10), Clock(6, 20))),
      Game(Player(Str_amy, "win"), Player(Str_cat, "resigned"),
           Pgn(Nov3, Clock(15, 0), Clock(15, 20))) }

\* Command lines whose day starts at midnight, at 01:00 (inside the hour the
\* clock repeats) and at 05:00.
StripArgSets ==
    [ user : {Str_bob},
      gap : {0, 100},
      day_cutoff_hour : {0, 1, 5},
      days : {All},
      games : {Omitted, Given(2)} ]

InitStrip == InitWith(StripArgSets, StripGames, MaxGames)

SpecStrip == InitStrip /\ [][Next]_vars

\* Runs over games that differ in their time tags.
InitTags == InitWith(TagArgSets, TaggedGames, MaxTagGames)

SpecTags == InitTags /\ [][Next]_vars

\* Runs over games that differ in their players and result keywords.
InitResults == InitWith(ResultArgSets, ResultGames, MaxResultGames)

SpecResults == InitResults /\ [][Next]_vars

\* Runs over games that differ in what they tell about the observer's rating.
InitRatings == InitWith(RatingArgSets, RatedGames, MaxRatingGames)

SpecRatings == InitRatings /\ [][Next]_vars

\* Runs of main() from its fetch on, and calls of fetch_most_recent_games of
\* fetching.py for a command line with --games and without --days, over a
\* history of several months and an empty cache.
InitHistory ==
    /\ argv \in HistoryArgSets
    /\ args = parse_args(argv)
    /\ entry \in {"main", "fetch_most_recent_games"}
    /\ entry = "fetch_most_recent_games" => (argv.days = Omitted /\ argv.games # Omitted)
    /\ pc = IF entry = "main" THEN "fetch" ELSE "recent"
    /\ archive \in Archives
    /\ disk = <<>>
    /\ call = NoCall
    /\ NoCountryLookups
    /\ games = <<>>
    /\ parsed = <<>>
    /\ cur = <<>>
    /\ sessions = <<>>
    /\ gi = 0
    /\ si = 0
    /\ sessions_by_day = <<>>
    /\ flat = <<>>
    /\ summary = Nothing
    /\ printed_days = <<>>

SpecHistory == InitHistory /\ [][NextHistory]_vars

\* Calls of fetch_month_games in a process in which main() is not running.
InitCache ==
    /\ argv = NoCommandLine
    /\ args = parse_args(argv)
    /\ entry = "fetch_month_games"
    /\ archive = <<>>
    /\ disk \in InitialDisks
    /\ call = NoCall
    /\ NoCountryLookups
    /\ games = <<>>
    /\ pc = "library"
    /\ parsed = <<>>
    /\ cur = <<>>
    /\ sessions = <<>>
    /\ gi = 0
    /\ si = 0
    /\ sessions_by_day = <<>>
    /\ flat = <<>>
    /\ summary = Nothing
    /\ printed_days = <<>>

SpecCache == InitCache /\ [][NextCache]_vars

\* The country cache files before the invocations: none, or the file of bob
\* with the country of cat.
InitialCountryFiles ==
    { <<>>,
      Str_bob :> json_dump([ type |-> "dict",
                             player_country |-> (Str_cat :> Some(Str_FR)),
                             country_name |-> (Str_FR :> Some(Str_France)) ]) }

\* Two invocations of main() in one process, for " Bob" and for "amy", each
\* with one detail line: the opponent of bob is cat, the opponent of amy is cat
\* or dan.
InitShared ==
    /\ argv = NoCommandLine
    /\ args = parse_args(argv)
    /\ entry = "main"
    /\ archive = <<>>
    /\ disk = <<>>
    /\ call = NoCall
    /\ opponent_country_cache = <<>>
    /\ country_name_cache = <<>>
    /\ country_cache_dirty = FALSE
    /\ country_files \in InitialCountryFiles
    /\ \E other \in {Str_cat, Str_dan} :
           inv = << [ user |-> Str_Bob_padded, no_cache |-> FALSE, pc |-> "load",
                      fetched |-> <<>>, opponents |-> <<Str_cat>>, output |-> <<>> ],
                    [ user |-> Str_amy, no_cache |-> FALSE, pc |-> "load",
                      fetched |-> <<>>, opponents |-> <<other>>, output |-> <<>> ] >>
    /\ touched = << [reads |-> {}, writes |-> {}], [reads |-> {}, writes |-> {}] >>
    /\ games = <<>>
    /\ pc = "threads"
    /\ parsed = <<>>
    /\ cur = <<>>
    /\ sessions = <<>>
    /\ gi = 0
    /\ si = 0
    /\ sessions_by_day = <<>>
    /\ flat = <<>>
    /\ summary = Nothing
    /\ printed_days = <<>>

SpecShared == InitShared /\ [][NextShared]_vars

\* What an earlier run left in the cache of bob and the server no longer says:
\* for October 2024 one game of 5 October, and cat in Germany.
Str_DE == <<"D", "E">>
Str_Germany == <<"G", "e", "r", "m", "a", "n", "y">>

CachedMonth == Dict(<<NoonGame(2024, 10, 5)>>)

CachedCountries ==
    [ type |-> "dict",
      player_country |-> (Str_cat :> Some(Str_DE)),
      country_name |-> (Str_DE :> Some(Str_Germany)) ]

\* One invocation of main() for " Bob", with or without --no-cache, over a
\* cache that holds the month file, the country file, both or neither; the
\* detail lines name cat, dan, or both.
InitNoCache ==
    /\ argv = NoCommandLine
    /\ args = parse_args(argv)
    /\ entry = "main"
    /\ archive = <<>>
    /\ disk \in { <<>>, cache_path(Str_Bob_padded, 2024, 10) :> json_dump(CachedMonth) }
    /\ call = NoCall
    /\ opponent_country_cache = <<>>
    /\ country_name_cache = <<>>
    /\ country_cache_dirty = FALSE
    /\ country_files \in { <<>>, Str_bob :> json_dump(CachedCountries) }
    /\ \E flag \in BOOLEAN, opps \in { <<Str_cat>>, <<Str_dan>>, <<Str_cat, Str_dan>> } :
           inv = << [ user |-> Str_Bob_padded, no_cache |-> flag, pc |-> "load",
                      fetched |-> <<>>, opponents |-> opps, output |-> <<>> ] >>
    /\ touched = << [reads |-> {}, writes |-> {}] >>
    /\ games = <<>>
    /\ pc = "threads"
    /\ parsed = <<>>
    /\ cur = <<>>
    /\ sessions = <<>>
    /\ gi = 0
    /\ si = 0
    /\ sessions_by_day = <<>>
    /\ flat = <<>>
    /\ summary = Nothing
    /\ printed_days = <<>>

SpecNoCache == InitNoCache /\ [][NextShared]_vars

-----------------------------------------------------------------------------
(* Segmentation *)

segmented == pc \in {"bucket", "done"}

\* The gap between two events: next.start - previous.end.
gap_between(previous, next) == next.start - previous.end

\* The number of the session that holds the i-th event of the concatenated
\* sessions.
RECURSIVE session_holding(_, _)
session_holding(ss, i) ==
    IF i <= Len(Head(ss)) THEN 1 ELSE 1 + session_holding(Tail(ss), i - Len(Head(ss)))

\* C1: for a gap threshold >= 0 and a non-empty sorted event list, the sessions
\* the segmentation pass returns, concatenated in output order, are the input
\* list: no event is dropped, duplicated or reordered.
C1_SessionsPartitionInput ==
    (segmented /\ args.gap >= 0 /\ parsed # <<>>) => Concat(sessions) = parsed

\* C1 witness: three events in two sessions, one of them of two events.
C1_Witness ==
    /\ pc = "done"
    /\ args.gap >= 0
    /\ Len(parsed) = 3
    /\ Len(sessions) = 2
    /\ Concat(sessions) = parsed

\* C2: inside a returned session every adjacent pair has gap <= gap_threshold,
\* and between consecutive sessions the gap from the last event of the earlier
\* one to the first event of the later one is > gap_threshold.
C2_SessionsAreMaximalRuns ==
    segmented =>
        /\ \A k \in DOMAIN sessions : \A i \in 1..(Len(sessions[k]) - 1) :
               gap_between(sessions[k][i], sessions[k][i + 1]) <= Minutes(args.gap)
        /\ \A k \in 1..(Len(sessions) - 1) :
               gap_between(Last(sessions[k]), sessions[k + 1][1]) > Minutes(args.gap)

\* C2 witness: a session of two events whose gap is exactly the threshold, and a
\* boundary after it.
C2_Witness ==
    /\ pc = "done"
    /\ Len(sessions) >= 2
    /\ Len(sessions[1]) >= 2
    /\ gap_between(sessions[1][1], sessions[1][2]) = Minutes(args.gap)

\* C3 (as claimed): under a negative gap threshold the pass never merges: every
\* event is its own session, so there are as many sessions as events.
C3_NegativeGapNeverMerges ==
    (segmented /\ args.gap < 0) =>
        /\ Len(sessions) = Len(parsed)
        /\ \A k \in DOMAIN sessions : Len(sessions[k]) = 1

\* C4 (as claimed): under gap_threshold = 0 two consecutive events share a session
\* only when the later one starts exactly when the earlier one ends.
C4_ZeroGapMergesOnlyBackToBack ==
    (segmented /\ args.gap = 0) =>
        \A k \in DOMAIN sessions : \A i \in 1..(Len(sessions[k]) - 1) :
            sessions[k][i + 1].start = sessions[k][i].end

\* C4 (amended): under gap_threshold = 0 two consecutive events share a session
\* exactly when the later one starts no later than the earlier one ends (a zero
\* gap or an overlap); any positive gap puts them in different sessions.
C4_ZeroGapMergesUnlessPositiveGap ==
    (pc = "done" /\ args.gap = 0) =>
        \A i \in 1..(Len(parsed) - 1) :
            (session_holding(sessions, i) = session_holding(sessions, i + 1))
                <=> (parsed[i + 1].start <= parsed[i].end)

\* C4 witness: under gap_threshold = 0, a back-to-back pair and an overlapping
\* pair in one session.
C4_Witness ==
    /\ pc = "done"
    /\ args.gap = 0
    /\ Len(sessions) = 1
    /\ Len(parsed) = 3
    /\ parsed[2].start = parsed[1].end
    /\ parsed[3].start < parsed[2].end

-----------------------------------------------------------------------------
(* Time extractor *)

\* C5 (as claimed): every event the extractor produces has end >= start; an end
\* time of day earlier than the start time of day, under the one date tag, gives
\* an end exactly one day after the date tag's reading of it.
C5_EndNotBeforeStart ==
    \A i \in DOMAIN parsed :
        LET e == parsed[i]
            tags == e.g.pgn
        IN  /\ e.end >= e.start
            /\ strptime(tags.UTCDate.nums, tags.EndTime.nums) < e.start
                   => e.end = strptime(tags.UTCDate.nums, tags.EndTime.nums) + Days(1)

\* C6 (as claimed): a record with an absent or unparsable date, start time or end
\* time never aborts the run and never yields an event.
C6_MalformedRecordIsSkipped ==
    /\ pc # "ValueError"
    /\ \A i \in DOMAIN parsed :
           LET tags == parsed[i].g.pgn
           IN  /\ strptime_date_ok(tags.UTCDate.nums)
               /\ strptime_time_ok(tags.UTCTime.nums)
               /\ strptime_time_ok(tags.EndTime.nums)

-----------------------------------------------------------------------------
(* Result classifier *)

same_ignoring_case(a, b) == lower(a) = lower(b)

\* The outcome the claim gives for a result keyword.
outcome_of(keyword) ==
    IF keyword = "win" THEN "W"
    ELSE IF keyword \in {"checkmated", "resigned", "timeout", "abandoned", "lose"} THEN "L"
    ELSE "D"

\* C7: the observer is compared with the two players without regard to case; an
\* observer who is neither player gets (DRAW, no side), whatever the players'
\* result keywords are.
C7_ObserverComparedIgnoringCase ==
    \A i \in DOMAIN parsed :
        LET e == parsed[i]
            is_white == same_ignoring_case(args.user, e.g.white.username)
            is_black == same_ignoring_case(args.user, e.g.black.username)
        IN  /\ (~is_white /\ ~is_black) => (e.res = "D" /\ e.side = None)
            /\ (is_white \/ is_black) => e.side \in {"W", "B"}

\* C7 witness: an observer in neither seat of a game that White lost, classified.
C7_Witness ==
    /\ pc = "done"
    /\ Len(parsed) = 1
    /\ ~same_ignoring_case(args.user, parsed[1].g.white.username)
    /\ ~same_ignoring_case(args.user, parsed[1].g.black.username)
    /\ parsed[1].g.white.result = "checkmated"
    /\ parsed[1].side = None

\* C8: for an observer who plays, the outcome is the one the observer's own
\* keyword maps to ("win" to W; "checkmated", "resigned", "timeout", "abandoned",
\* "lose" to L; every other keyword, a missing one included, to D) and the side is
\* the side the observer plays.
C8_OwnKeywordDecidesOutcome ==
    \A i \in DOMAIN parsed :
        LET e == parsed[i]
            is_white == same_ignoring_case(args.user, e.g.white.username)
            is_black == same_ignoring_case(args.user, e.g.black.username)
        IN  /\ is_white => (e.side = "W" /\ e.res = outcome_of(e.g.white.result))
            /\ (is_black /\ ~is_white) =>
                   (e.side = "B" /\ e.res = outcome_of(e.g.black.result))

\* C8 witness: the observer, as Black under another spelling, abandoned a game
\* that White won.
C8_Witness ==
    /\ pc = "done"
    /\ Len(parsed) = 1
    /\ parsed[1].g.black.username # args.user
    /\ parsed[1].g.black.result = "abandoned"
    /\ parsed[1].g.white.result = "win"
    /\ parsed[1].side = "B"
    /\ parsed[1].res = "L"

-----------------------------------------------------------------------------
(* Day buckets *)

\* The date of (the instant t in the local time zone, minus the cutoff hours).
shifted_local_date(t) == shifted_date(astimezone(t), Hours(args.day_cutoff_hour))

\* The days whose bucket holds session sess.
days_holding(sess) ==
    { d \in DOMAIN sessions_by_day :
          \E j \in DOMAIN sessions_by_day[d] : sessions_by_day[d][j] = sess }

RECURSIVE bucket_sizes(_)
bucket_sizes(days) ==
    IF days = {} THEN 0
    ELSE LET d == CHOOSE x \in days : TRUE
         IN  Len(sessions_by_day[d]) + bucket_sizes(days \ {d})

\* C9: every session is in exactly one day bucket, the one of the shifted local
\* date of its first event's start, whatever its later events are; under cutoff
\* 5 a session that starts at 01:30 local time (2024-11-03T05:30Z) is in the
\* bucket of the day before, 2 November.
C9_SessionKeyedByFirstStart ==
    /\ bucket_sizes(DOMAIN sessions_by_day) = si
    /\ \A k \in 1..si :
           /\ days_holding(sessions[k]) = {shifted_local_date(sessions[k][1].start)}
           /\ (args.day_cutoff_hour = 5
                   /\ sessions[k][1].start = Instant(2024, 11, 3, 5, 30, 0))
                  => days_holding(sessions[k]) = {DayNumber(2024, 11, 2)}

\* C9 witness: a bucketed session whose last event starts on a later shifted
\* local date than its first.
C9_Witness ==
    /\ pc = "done"
    /\ \E k \in DOMAIN sessions :
           /\ Len(sessions[k]) >= 2
           /\ shifted_local_date(Last(sessions[k]).start)
                  > shifted_local_date(sessions[k][1].start)

\* C10: the bucket keys are distinct dates; a bucket holds its sessions in the
\* order the segmentation pass returned them, which is ascending by first start;
\* and the days are presented in ascending date order.
C10_BucketsInDateOrder ==
    pc = "done" =>
        /\ {printed_days[i] : i \in DOMAIN printed_days} = DOMAIN sessions_by_day
        /\ \A i \in 1..(Len(printed_days) - 1) : printed_days[i] < printed_days[i + 1]
        /\ \A d \in DOMAIN sessions_by_day :
               /\ sessions_by_day[d] =
                      SelectSeq(sessions, LAMBDA s : shifted_local_date(s[1].start) = d)
               /\ \A j \in 1..(Len(sessions_by_day[d]) - 1) :
                      sessions_by_day[d][j][1].start <= sessions_by_day[d][j + 1][1].start

\* C10 witness: two days presented, the later one with two sessions.
C10_Witness ==
    /\ pc = "done"
    /\ Len(printed_days) = 2
    /\ Len(sessions_by_day[printed_days[2]]) = 2

-----------------------------------------------------------------------------
(* Summary *)

RECURSIVE events_in_buckets(_)
\* The number of events in the sessions of the given days.
events_in_buckets(days) ==
    IF days = {} THEN 0
    ELSE LET d == CHOOSE e \in days : TRUE
         IN  Len(Concat(sessions_by_day[d])) + events_in_buckets(days \ {d})

\* The number of events of the strip that have no side.
unknown_side_events == Cardinality({ i \in DOMAIN flat : flat[i][2] = None })

\* C11: the events in all sessions of all day buckets are as many as the total
\* of the summary (wins + losses + draws), and as many as the events that entered
\* the segmentation: nothing is lost or double-counted on the way.
C11_EveryEventCountedOnce ==
    pc = "done" =>
        /\ events_in_buckets(DOMAIN sessions_by_day) = Len(parsed)
        /\ summary[1].total = Len(parsed)
        /\ summary[1].total = summary[1].wins + summary[1].losses + summary[1].draws

\* C11 witness: three events in three sessions, two of them in the bucket of the
\* same day.
C11_Witness ==
    /\ pc = "done"
    /\ Len(parsed) = 3
    /\ Len(sessions) = 3
    /\ Cardinality(DOMAIN sessions_by_day) = 2
    /\ summary[1].total = 3

\* C12: an event of a game in which the observer is neither player is a draw of
\* the overall total and is in neither the White nor the Black counts, so the
\* White total plus the Black total is the total minus the events without a side.
C12_UnknownSideOnlyInOverallDraws ==
    pc = "done" =>
        /\ \A i \in DOMAIN flat : flat[i][2] = None => flat[i][1] = "D"
        /\ summary[1].w_total + summary[1].b_total
               = summary[1].total - unknown_side_events
        /\ summary[1].draws
               = summary[1].w_draws + summary[1].b_draws + unknown_side_events

\* C12 witness: a summary over one event, which has no side.
C12_Witness ==
    /\ pc = "done"
    /\ unknown_side_events = 1
    /\ summary[1].total = 1
    /\ summary[1].draws = 1
    /\ summary[1].w_total = 0
    /\ summary[1].b_total = 0

\* C13 (as claimed): when the list of events is empty the run yields a summary
\* with wins = losses = draws = total = 0, win percentage 0 and no rating span.
C13_EmptyListYieldsZeroSummary ==
    pc = "no_games" =>
        /\ summary # Nothing
        /\ summary[1].wins = 0
        /\ summary[1].losses = 0
        /\ summary[1].draws = 0
        /\ summary[1].total = 0
        /\ summary[1].win_pct = 0
        /\ summary[1].elo_start = Nothing
        /\ summary[1].elo_end = Nothing
        /\ summary[1].elo_delta = Nothing

\* C13 (amended): when the list of events is empty the run ends with "No games
\* found." without raising and without a summary: no session, no day bucket, no
\* strip and no counts are computed; a summary is only ever computed over at
\* least one event.
C13_EmptyListEndsWithoutSummary ==
    /\ pc = "no_games" =>
           /\ parsed = <<>>
           /\ sessions = <<>>
           /\ sessions_by_day = <<>>
           /\ flat = <<>>
           /\ summary = Nothing
    /\ pc \in {"segment", "bucket", "done"} => parsed # <<>>
    /\ summary # Nothing => summary[1].total >= 1

\* C13 witness: the run has ended with "No games found." although games were
\* fetched (all of them are outside the day window).
C13_Witness ==
    /\ pc = "no_games"
    /\ games # <<>>
    /\ parsed = <<>>
    /\ summary = Nothing

\* The events of parsed that expose a rating before, and a rating after.
exposing_before ==
    { i \in DOMAIN parsed :
          extract_game_details(parsed[i].g, args.user).my_rating_before # Nothing }

exposing_after ==
    { i \in DOMAIN parsed :
          extract_game_details(parsed[i].g, args.user).my_rating_after # Nothing }

\* C14: the start of the rating span is the rating before of the first event, in
\* chronological order, that exposes one, and its end is the rating after of the
\* last event that exposes one; when no event exposes the one or the other the
\* whole span (start, end, delta) is absent and never a delta of zero.
C14_RatingSpanFromFirstAndLast ==
    pc = "done" =>
        /\ \A i \in 1..(Len(parsed) - 1) : parsed[i].start <= parsed[i + 1].start
        /\ IF exposing_before = {}
           THEN summary[1].elo_start = Nothing
           ELSE LET i == CHOOSE j \in exposing_before : \A k \in exposing_before : j <= k
                IN  summary[1].elo_start =
                        extract_game_details(parsed[i].g, args.user).my_rating_before
        /\ IF exposing_after = {}
           THEN summary[1].elo_end = Nothing
           ELSE LET i == CHOOSE j \in exposing_after : \A k \in exposing_after : k <= j
                IN  summary[1].elo_end =
                        extract_game_details(parsed[i].g, args.user).my_rating_after
        /\ IF exposing_before = {} \/ exposing_after = {}
           THEN /\ summary[1].elo_delta = Nothing
                /\ ~summary[1].elo_printed
           ELSE /\ summary[1].elo_delta =
                       Some(summary[1].elo_end[1] - summary[1].elo_start[1])
                /\ summary[1].elo_printed

\* C14 witness: two events that both expose a rating before, 1502 then 1500,
\* and a span from 1502 to the 1508 after the second.
C14_Witness ==
    /\ pc = "done"
    /\ exposing_before = {1, 2}
    /\ summary[1].elo_start = Some(1502)
    /\ extract_game_details(parsed[2].g, args.user).my_rating_before = Some(1500)
    /\ summary[1].elo_end = Some(1508)
    /\ summary[1].elo_delta = Some(6)

-----------------------------------------------------------------------------
(* The month cache *)

\* The cache file of the call c, and the month that is the current one in New
\* York at the instant of the call.
cache_file_of(c) ==
    [user |-> Str_bob, year |-> c.year, month |-> c.month, tmp |-> FALSE]

local_month_at(at) == IF at = now THEN <<2024, 11>> ELSE <<2024, 10>>

for_current_month(c) == <<c.year, c.month>> = local_month_at(c.at)

\* Whether the cache file of the call c holds an object before the call.
validly_cached(c) ==
    /\ cache_file_of(c) \in DOMAIN disk
    /\ disk[cache_file_of(c)].complete
    /\ disk[cache_file_of(c)].value.type = "dict"

\* The cache file of the call c as it is before and after the call; <<>> when
\* it is not there.
file_before(c) ==
    IF cache_file_of(c) \in DOMAIN disk THEN <<disk[cache_file_of(c)]>> ELSE <<>>

file_after(c) ==
    IF cache_file_of(c) \in DOMAIN disk' THEN <<disk'[cache_file_of(c)]>> ELSE <<>>

\* C15, first and second part: a call for the current (local) month fetches
\* live and neither reads nor writes the cache; a call for another month whose
\* cache file holds an object returns the cached games without a network call.
CurrentLiveAndPastFromCache(c) ==
    /\ for_current_month(c) =>
           /\ c.network
           /\ ~c.read
           /\ ~c.wrote
           /\ disk' = disk
    /\ (~for_current_month(c) /\ validly_cached(c)) =>
           /\ ~c.network
           /\ c.st = "ok"
           /\ c.games = disk[cache_file_of(c)].value.games
           /\ disk' = disk

\* C15 (as claimed): ..., and after a successful live fetch of a past month the
\* payload is in that user's cache file for that month.
C15_PastMonthsCachedCurrentLive ==
    [][ LET c == call'
        IN  /\ CurrentLiveAndPastFromCache(c)
            /\ (~for_current_month(c) /\ c.network /\ c.reply.st = "ok") =>
                   file_after(c) = <<json_dump(c.reply.value)>>
      ]_vars

\* C15 (amended): a call for the current (local) month fetches live and neither
\* reads nor writes the cache; a call for another month whose cache file holds
\* an object returns the cached games without a network call; after a
\* successful live fetch of such a month whose payload is an object, the
\* payload is written to that user's cache file for that month if no step of
\* the write fails, and otherwise (a failed step, a payload that is no object,
\* a failed fetch) the cache file is left as it was.
C15_PastMonthsCachedBestEffort ==
    [][ LET c == call'
        IN  /\ CurrentLiveAndPastFromCache(c)
            /\ (~for_current_month(c) /\ c.network) =>
                   IF c.reply.st = "ok" /\ c.reply.value.type = "dict" /\ c.fault = "none"
                   THEN /\ c.wrote
                        /\ file_after(c) = <<json_dump(c.reply.value)>>
                        /\ c.games = c.reply.value.games
                   ELSE file_after(c) = file_before(c)
      ]_vars

\* C15 witness: at 22:00 of 31 October in New York (1 November UTC) a call for
\* November, which is not the current local month, fetched two games live and
\* left them in the cache file of bob for November.
C15_Witness ==
    /\ call.st = "ok"
    /\ call.at = Instant(2024, 11, 1, 2, 0, 0)
    /\ call.month = 11
    /\ call.network
    /\ call.wrote
    /\ Len(call.games) = 2
    /\ cache_file_of(call) \in DOMAIN disk
    /\ disk[cache_file_of(call)] = json_dump(call.reply.value)

\* C16 (as claimed): a failure at any step of writing the cache file of a month
\* (creating the directory, writing the temporary file, renaming it) does not
\* reach the caller of fetch_month_games and leaves the cache file with the
\* complete old or the complete new payload.
C16_CacheWriteFailureIsContained ==
    [][ LET c == call'
        IN  c.wrote =>
                /\ c.st = "ok"
                /\ c.games = c.reply.value.games
                /\ \/ file_after(c) = file_before(c)
                   \/ file_after(c) = <<json_dump(c.reply.value)>>
      ]_vars

-----------------------------------------------------------------------------
(* The games selected *)

\* The games the server holds, oldest month first.
archive_games ==
    LET months == << <<2021, 11>>, <<2021, 12>>, <<2024, 10>>, <<2024, 11>> >>
    IN  Concat([i \in DOMAIN months |-> archive[months[i]].games])

\* The events of the games the server holds, oldest first, whatever their day.
archive_events ==
    sort_by_start(recent_parse_loop("sessions", archive_games, args.user, <<>>).parsed)

selected == pc \in {"segment", "bucket", "done", "no_games"}

\* C17 (as claimed): with --games N (N > 0) and --days omitted, the events
\* processed are the N most recent games, regardless of any day window.
C17_GamesWithoutDaysAreMostRecent ==
    (entry = "main" /\ selected /\ argv.days = Omitted /\ argv.games # Omitted
         /\ argv.games[2] > 0)
        => parsed = Tail_n(archive_events, argv.games[2])

\* C18 (as claimed): with --days all, every game of the history the server
\* holds is among the events, however old it is.
C18_AllDaysIncludesWholeHistory ==
    (entry = "main" /\ selected /\ argv.days = All /\ argv.games = Omitted)
        => \A i \in DOMAIN archive_events :
               \E j \in DOMAIN parsed : parsed[j].g = archive_events[i].g

\* C20: on every path to the segmentation (the day window, the day window cut to
\* the last N, fetch_most_recent_games) the list of events is sorted ascending
\* by start, and so is every session.
C20_EventsSortedByStart ==
    /\ pc \in {"segment", "bucket", "done", "returned"} =>
           \A i \in 1..(Len(parsed) - 1) : parsed[i].start <= parsed[i + 1].start
    /\ \A i \in 1..(Len(cur) - 1) : cur[i].start <= cur[i + 1].start
    /\ \A k \in DOMAIN sessions : \A i \in 1..(Len(sessions[k]) - 1) :
           sessions[k][i].start <= sessions[k][i + 1].start

\* C20 witness: fetch_most_recent_games has returned two events, the first from
\* the October archive, which was fetched after the November one.
C20_Witness ==
    /\ pc = "returned"
    /\ Len(parsed) = 2
    /\ parsed[1].g = NoonGame(2024, 10, 20)
    /\ parsed[1].start < parsed[2].start

-----------------------------------------------------------------------------
(* Concurrent invocations *)

\* C19 (as claimed): two invocations for users that differ after trim and
\* lower-casing share no mutable state, in any interleaving: neither reads or
\* writes a cache file or an in-memory cache entry that the other writes.
C19_NoSharedMutableState ==
    \A i \in DOMAIN inv : \A j \in DOMAIN inv :
        (i # j /\ safe_user(inv[i].user) # safe_user(inv[j].user)) =>
            touched[i].writes \cap (touched[j].reads \cup touched[j].writes) = {}

-----------------------------------------------------------------------------
(* Session boundaries and games played at the same time *)

\* The events of the sessions before session k + 1, and the last of them.
events_before_boundary(k) ==
    { sessions[j][i] : <<j, i>> \in { p \in (1..k) \X (1..Len(parsed)) :
                                          p[2] <= Len(sessions[p[1]]) } }

\* C21 (as claimed): at every session boundary the first event of the new
\* session starts more than the gap threshold after the end of every event of
\* all earlier sessions, also when an earlier-starting game ends after a
\* later-starting one.
C21_BoundaryAfterEveryEarlierEvent ==
    segmented =>
        \A k \in 1..(Len(sessions) - 1) : \A e \in events_before_boundary(k) :
            gap_between(e, sessions[k + 1][1]) > Minutes(args.gap)

\* C21 (amended): at every session boundary the first event of the new session
\* starts more than the gap threshold after the end of the event just before it
\* in start order, and so after the end of every earlier event that ends no
\* later than that one; an earlier event that ends later is not looked at.
C21_BoundaryAfterPrecedingEvent ==
    segmented =>
        \A k \in 1..(Len(sessions) - 1) : \A e \in events_before_boundary(k) :
            e.end <= Last(sessions[k]).end =>
                gap_between(e, sessions[k + 1][1]) > Minutes(args.gap)

\* C21 witness: a boundary after a session whose long first game still runs
\* when the new session starts, while the game just before the boundary ended
\* more than the threshold earlier.
C21_Witness ==
    /\ pc = "done"
    /\ args.gap >= 0
    /\ \E k \in 1..(Len(sessions) - 1) :
           /\ gap_between(Last(sessions[k]), sessions[k + 1][1]) > Minutes(args.gap)
           /\ \E e \in events_before_boundary(k) :
                  /\ e.end > Last(sessions[k]).end
                  /\ e.end > sessions[k + 1][1].start

-----------------------------------------------------------------------------
(* The result strip *)

\* The (outcome, side) pairs of the sorted event list, in its order.
results_in_order(events) == [i \in DOMAIN events |-> <<events[i].res, events[i].side>>]

\* C22: the flat result strip, built from the day buckets in ascending date
\* order, then the sessions of a day, then their events, lists the
\* (outcome, side) pairs in the order of the chronologically sorted event list
\* that was segmented.
C22_StripInChronologicalOrder ==
    pc = "done" =>
        /\ flat = results_in_order(parsed)
        /\ \A i \in 1..(Len(parsed) - 1) : parsed[i].start <= parsed[i + 1].start

\* C22 witness: three events with three different pairs, in more than one
\* session and more than one day bucket.
C22_Witness ==
    /\ pc = "done"
    /\ Len(parsed) = 3
    /\ Cardinality({ flat[i] : i \in DOMAIN flat }) = 3
    /\ Len(sessions) >= 2
    /\ Cardinality(DOMAIN sessions_by_day) >= 2

-----------------------------------------------------------------------------
(* --no-cache *)

\* The month file of bob holds what was cached before the run.
month_survives ==
    /\ cache_path(Str_Bob_padded, 2024, 10) \in DOMAIN disk
    /\ disk[cache_path(Str_Bob_padded, 2024, 10)].value = CachedMonth

\* The country file of bob holds an entry that was cached before the run.
country_survives ==
    /\ Str_bob \in DOMAIN country_files
    /\ Str_cat \in DOMAIN country_files[Str_bob].value.player_country
    /\ country_files[Str_bob].value.player_country[Str_cat] = Some(Str_DE)

\* C23 (as claimed): in a run with --no-cache nothing that was in the disk cache
\* of the user before the run is used in the run or survives it: the games come
\* from the server, no detail line shows a country cached earlier, and when the
\* run has ended neither the month file nor the country file holds what was
\* cached earlier.
C23_NoCacheUsesNothingCached ==
    \A i \in DOMAIN inv :
        (inv[i].no_cache /\ inv[i].pc = "done") =>
            /\ inv[i].fetched # CachedMonth.games
            /\ \A k \in DOMAIN inv[i].output : inv[i].output[k] \notin {Str_Germany, Str_DE}
            /\ ~month_survives
            /\ ~country_survives

====
